---- MODULE Spec2Model ----
(***************************************************************************)
(* Model of the auction / real-estate monitors of steven8yao/mathgame:     *)
(*   src/auc2.py     geocode_address, calculate_driving_time_osrm,         *)
(*                   calculate_direction, run_auction_monitor              *)
(*   src/auction.py  calculate_direction, load_existing_properties,        *)
(*                   save_properties_to_excel, check_for_new_properties    *)
(*                                                                         *)
(* Python strings are sequences of one-character strings, Python None is   *)
(* the integer None (numbers) or the string NoneStr (text), coordinates    *)
(* are integers in units of 1e-4 degree, times are whole seconds.          *)
(***************************************************************************)
EXTENDS Integers, Sequences, FiniteSets, TLC

VARIABLES
    combined_cache,   \* auc2.py: the in-memory location cache (geocode_cache = route_cache)
    cache_file,       \* auc2.py: contents of COMBINED_CACHE_FILE
    call,             \* the last geocode_address / calculate_driving_time_osrm call and its outcome
    resolved,         \* history: the non-null pair geocode_address returned per address
    calls_left,       \* remaining budget of cache calls explored
    df,               \* auc2.py: the DataFrame of run_auction_monitor
    item_url_set,     \* auc2.py: item_url_set
    excel_file,       \* auc2.py: contents of EXCEL_FILE
    pc,               \* run_auction_monitor: "listing" (line 567), "auction" (581), "item" (589)
    auction_infos,    \* run_auction_monitor: auction_infos
    auction_idx,      \* run_auction_monitor: 1-based position in auction_infos[:3]
    items,            \* run_auction_monitor: items of the current auction
    idx,              \* run_auction_monitor: 1-based position in items
    sent,             \* per item_url, the notifications dispatched per tier
    last,             \* the last item pass: item, path taken, state, notification
    passes_left,      \* remaining budget of item passes explored
    classified,       \* a deadline text, the clock, and the remaining_str and state computed for them
    pointed,          \* the last calculate_direction call: its arguments, bearing and both labels
    EXCEL_FILE,       \* auction.py: contents of EXCEL_FILE
    url_idx,          \* check_for_new_properties: 1-based position in url_categories
    telegram,         \* history: notifications sent per (MLS number, category)
    checked,          \* the last category check: what it loaded, found new and saved
    saves_left,       \* remaining budget of category checks that find new listings
    clock,            \* datetime.now() of the timed monitor loop, in seconds
    ends_at,          \* per item, the dt_end its detail page states
    listed_at,        \* history: per item, the clock when an auction page first listed it
    fetched_at,       \* history: the clock at the latest detail-page fetch, None before the first
    schedule,         \* auction.py run_continuous_monitor: the latest iteration of its loop
    tg_call           \* ib_tg.py: the last send_telegram_message call and its outcome

cacheVars == <<combined_cache, cache_file>>
callVars == <<call, resolved, calls_left>>
tableVars == <<df, item_url_set, excel_file>>
loopVars == <<pc, auction_infos, auction_idx, items, idx>>
logVars == <<sent, last, passes_left>>
monitorVars == <<tableVars, loopVars, logVars>>
pureVars == <<classified, pointed, tg_call>>
propertyVars == <<EXCEL_FILE, url_idx, telegram, checked, saves_left>>
timeVars == <<clock, ends_at, listed_at, fetched_at, schedule>>
vars == <<cacheVars, callVars, monitorVars, pureVars, propertyVars, timeVars>>

(***************************************************************************)
(* Python values                                                           *)
(***************************************************************************)
None == -99999999
NoneStr == "None"

Min(a, b) == IF a < b THEN a ELSE b
Max(a, b) == IF a > b THEN a ELSE b

(***************************************************************************)
(* Python str operations on sequences of characters                        *)
(***************************************************************************)
UpperAlpha == <<"A","B","C","D","E","F","G","H","I","J","K","L","M",
                "N","O","P","Q","R","S","T","U","V","W","X","Y","Z">>
LowerAlpha == <<"a","b","c","d","e","f","g","h","i","j","k","l","m",
                "n","o","p","q","r","s","t","u","v","w","x","y","z">>
Digits == <<"0","1","2","3","4","5","6","7","8","9">>
Whitespace == {" ", "\t", "\n"}

IsUpper(c) == c \in {UpperAlpha[i] : i \in 1..26}
IsLower(c) == c \in {LowerAlpha[i] : i \in 1..26}
IsDigit(c) == c \in {Digits[i] : i \in 1..10}
IsWordChar(c) == IsUpper(c) \/ IsLower(c) \/ IsDigit(c) \/ c = "_"

UpperSet == {UpperAlpha[i] : i \in 1..26}
LowerSet == {LowerAlpha[i] : i \in 1..26}
ToLowerMap == [c \in UpperSet |-> LowerAlpha[CHOOSE i \in 1..26 : UpperAlpha[i] = c]]
ToUpperMap == [c \in LowerSet |-> UpperAlpha[CHOOSE i \in 1..26 : LowerAlpha[i] = c]]
LowerChar(c) == IF c \in UpperSet THEN ToLowerMap[c] ELSE c
UpperChar(c) == IF c \in LowerSet THEN ToUpperMap[c] ELSE c

\* str.lower()
Lower(s) == [i \in 1..Len(s) |-> LowerChar(s[i])]

\* mutant: only the first character is changed
Capitalize_firstOnly(s) == [i \in 1..Len(s) |-> IF i = 1 THEN UpperChar(s[i]) ELSE s[i]]

\* str.capitalize(): first character upper-cased, the rest lower-cased
Capitalize(s) == [i \in 1..Len(s) |-> IF i = 1 THEN UpperChar(s[i]) ELSE LowerChar(s[i])]

\* str.lstrip(chars)
RECURSIVE LStrip(_, _)
LStrip(s, chars) == IF s # <<>> /\ Head(s) \in chars THEN LStrip(Tail(s), chars) ELSE s

\* str.rstrip(chars)
RECURSIVE RStrip(_, _)
RStrip(s, chars) ==
    IF s # <<>> /\ s[Len(s)] \in chars THEN RStrip(SubSeq(s, 1, Len(s) - 1), chars) ELSE s

\* str.strip()
Strip(s) == RStrip(LStrip(s, Whitespace), Whitespace)

\* str.startswith(w)
StartsWith(s, w) == Len(w) <= Len(s) /\ SubSeq(s, 1, Len(w)) = w

\* w in s
Contains(s, w) == \E i \in 1..(Len(s) - Len(w) + 1) : SubSeq(s, i, i + Len(w) - 1) = w

\* s[n:]
Drop(s, n) == SubSeq(s, n + 1, Len(s))

\* str.rsplit(sep, 1) for a one-character separator that occurs in s
LastIndexOf(s, c) == CHOOSE i \in 1..Len(s) : s[i] = c /\ \A j \in (i + 1)..Len(s) : s[j] # c
RSplit1(s, c) == <<SubSeq(s, 1, LastIndexOf(s, c) - 1), Drop(s, LastIndexOf(s, c))>>

(***************************************************************************)
(* auc2.py geocode_address                                                 *)
(***************************************************************************)
ambiguous_words ==
    << <<"a","d","d","r","e","s","s"," ","c","o","m","i","n","g">>,
       <<"t","b","a">>,
       <<"t","o"," ","b","e"," ","a","n","n","o","u","n","c","e","d">>,
       <<"c","o","m","i","n","g"," ","s","o","o","n">>,
       <<"u","n","k","n","o","w","n">>,
       <<"n","/","a">>,
       <<"n","o","t"," ","a","v","a","i","l","a","b","l","e">> >>

\* the nested strip_ambiguous_prefix: the first word of the list that prefixes the
\* lower-cased trimmed address is cut off, then leading commas and spaces
strip_ambiguous_prefix(addr) ==
    LET addr_strip == Strip(addr)
        lowered == Lower(addr_strip)
        hits == {i \in 1..Len(ambiguous_words) : StartsWith(lowered, ambiguous_words[i])}
    IN  IF hits = {} THEN addr_strip
        ELSE LET first == CHOOSE i \in hits : \A j \in hits : i <= j
             IN  LStrip(Drop(addr_strip, Len(ambiguous_words[first])), {",", " "})

\* mutant: only a leading placeholder phrase of the remainder is looked for
StillAmbiguous_prefixOnly(cleaned) ==
    \E i \in 1..Len(ambiguous_words) : StartsWith(Lower(cleaned), ambiguous_words[i])

\* any(word in cleaned_address.lower() for word in ambiguous_words)
StillAmbiguous(cleaned) ==
    LET lowered == Lower(cleaned)
    IN  \E i \in 1..Len(ambiguous_words) : Contains(lowered, ambiguous_words[i])

\* the short-circuit test of line 63
ShortCircuits(address) ==
    LET cleaned_address == strip_ambiguous_prefix(Strip(address))
    IN  cleaned_address = <<>> \/ StillAmbiguous(cleaned_address)

\* re.sub(r'(\b\d+)(st|nd|rd|th)(\b)', r'\1', addr, flags=re.IGNORECASE)
OrdinalSuffixes == { <<"s","t">>, <<"n","d">>, <<"r","d">>, <<"t","h">> }

RECURSIVE DigitRunEnd(_, _)
\* index of the first non-digit at or after position i (Len+1 at the end)
DigitRunEnd(s, i) == IF i <= Len(s) /\ IsDigit(s[i]) THEN DigitRunEnd(s, i + 1) ELSE i

OrdinalMatchAt(s, i) ==
    LET j == DigitRunEnd(s, i)
    IN  /\ i <= Len(s) /\ IsDigit(s[i])
        /\ (i = 1 \/ ~IsWordChar(s[i - 1]))
        /\ j + 1 <= Len(s)
        /\ Lower(SubSeq(s, j, j + 1)) \in OrdinalSuffixes
        /\ (j + 2 > Len(s) \/ ~IsWordChar(s[j + 2]))

RECURSIVE RemoveFrom(_, _)
RemoveFrom(s, i) ==
    IF i > Len(s) THEN <<>>
    ELSE IF OrdinalMatchAt(s, i)
         THEN SubSeq(s, i, DigitRunEnd(s, i) - 1) \o RemoveFrom(s, DigitRunEnd(s, i) + 2)
         ELSE <<s[i]>> \o RemoveFrom(s, i + 1)

\* mutant: the ordinal suffixes are left in place
remove_ordinal_suffixes_kept(addr) == addr

remove_ordinal_suffixes(addr) == RemoveFrom(addr, 1)

\* The cache is a function from the address keys present to entries
\* [geocode |-> <<>> (no "geocode" key) or <<lat, lng>>,
\*  route   |-> a function from the city keys present to <<minutes, km, direction>>].
NoRoutes == [c \in {} |-> <<>>]
EmptyEntry == [geocode |-> <<>>, route |-> NoRoutes]
EmptyCache == [k \in {} |-> EmptyEntry]
GeocodeSentinel == <<None, None>>
RouteSentinel == <<None, None, NoneStr>>

\* geocode_cache[key] = {} when the key is absent
EnsureKey(cache, key) ==
    IF key \in DOMAIN cache THEN cache
    ELSE [k \in DOMAIN cache \cup {key} |-> IF k = key THEN EmptyEntry ELSE cache[k]]

\* mutant: only the latitude of the value is written
SetGeocode_latOnly(cache, key, value) ==
    [EnsureKey(cache, key) EXCEPT ![key].geocode = <<value[1], None>>]

\* geocode_cache[key]["geocode"] = value
SetGeocode(cache, key, value) ==
    [EnsureKey(cache, key) EXCEPT ![key].geocode = value]

\* mutant: the cache is looked up under the trimmed address
GeocodeCacheHit_trimmedKey(cache, address) ==
    /\ Strip(address) \in DOMAIN cache
    /\ address \in DOMAIN cache
    /\ cache[address].geocode # <<>>
    /\ cache[address].geocode # GeocodeSentinel

\* mutant: a cached [None, None] counts as a hit
GeocodeCacheHit_sentinelHit(cache, address) ==
    /\ address \in DOMAIN cache
    /\ cache[address].geocode # <<>>

\* line 73-76: a cached pair other than [None, None] is a hit
GeocodeCacheHit(cache, address) ==
    /\ address \in DOMAIN cache
    /\ cache[address].geocode # <<>>
    /\ cache[address].geocode # GeocodeSentinel

\* address or ""
NoneAddress == <<NoneStr>>

\* mutant: the key is the trimmed address
OrEmpty_trimmed(address) == IF address = NoneAddress THEN <<>> ELSE Strip(address)

OrEmpty(address) == IF address = NoneAddress THEN <<>> ELSE address

\* prov gives what each provider request of this call would answer: <<>> for an
\* exception, an error status or an empty result, <<lat, lng>> for a first hit.
\* The result is the cache afterwards, the returned pair and the requests made.
geocode_address(address, geocode_cache, prov) ==
    LET cache_key == OrEmpty(address)
        checked_address == Strip(cache_key)
        cleaned_address == strip_ambiguous_prefix(checked_address)
        address_to_geocode == cleaned_address
        simplified_address == remove_ordinal_suffixes(address_to_geocode)
        call1 == << <<"nominatim", address_to_geocode>> >>
        call2 == IF simplified_address # address_to_geocode
                 THEN << <<"nominatim", simplified_address>> >> ELSE <<>>
        call3 == << <<"google", address_to_geocode>> >>
    IN  IF cleaned_address = <<>> \/ StillAmbiguous(cleaned_address)
        THEN [cache |-> SetGeocode(geocode_cache, cache_key, GeocodeSentinel),
              ret |-> GeocodeSentinel, calls |-> <<>>]
        ELSE IF GeocodeCacheHit(geocode_cache, cache_key)
        THEN [cache |-> geocode_cache, ret |-> geocode_cache[cache_key].geocode, calls |-> <<>>]
        ELSE IF prov.exact # <<>>
        THEN [cache |-> SetGeocode(geocode_cache, cache_key, prov.exact),
              ret |-> prov.exact, calls |-> call1]
        ELSE IF simplified_address # address_to_geocode /\ prov.simplified # <<>>
        THEN [cache |-> SetGeocode(geocode_cache, cache_key, prov.simplified),
              ret |-> prov.simplified, calls |-> call1 \o call2]
        ELSE IF prov.google # <<>>
        THEN [cache |-> SetGeocode(geocode_cache, cache_key, prov.google),
              ret |-> prov.google, calls |-> call1 \o call2 \o call3]
        ELSE [cache |-> SetGeocode(geocode_cache, cache_key, GeocodeSentinel),
              ret |-> GeocodeSentinel, calls |-> call1 \o call2 \o call3]

(***************************************************************************)
(* math.radians / sin / cos / atan2 / degrees in fixed point: angles given *)
(* in 1e-4 degree, sines and cosines scaled by Scale, radians scaled by    *)
(* Scale, bearings in 1e-2 degree.  Every product stays below 2^31.        *)
(***************************************************************************)
Scale == 10 ^ 4
FullTurn == 360 * Scale
Abs(a) == IF a < 0 THEN -a ELSE a
Sgn(a) == IF a < 0 THEN -1 ELSE 1
Mul(a, b) == Sgn(a) * Sgn(b) * ((Abs(a) * Abs(b)) \div Scale)

\* math.radians: d * pi / 180, pi / 180 = 0.01745329
Radians(d) ==
    Sgn(d) * ((((Abs(d) \div 1000) * 1745329) \div 100000) + (((Abs(d) % 1000) * 17453) \div 1000000))

\* Taylor polynomials on [0, pi/2], Horner form
SinQ(r) ==
    LET r2 == Mul(r, r)
        t4 == Scale - (r2 \div 72)
        t3 == Scale - (Mul(r2, t4) \div 42)
        t2 == Scale - (Mul(r2, t3) \div 20)
        t1 == Scale - (Mul(r2, t2) \div 6)
    IN  Mul(r, t1)

CosQ(r) ==
    LET r2 == Mul(r, r)
        t5 == Scale - (r2 \div 90)
        t4 == Scale - (Mul(r2, t5) \div 56)
        t3 == Scale - (Mul(r2, t4) \div 30)
        t2 == Scale - (Mul(r2, t3) \div 12)
    IN  Scale - (Mul(r2, t2) \div 2)

\* math.sin(math.radians(d)) and math.cos(math.radians(d)), by quadrant
SinDeg(d) ==
    LET m == d % FullTurn
    IN  IF m <= 90 * Scale THEN SinQ(Radians(m))
        ELSE IF m <= 180 * Scale THEN SinQ(Radians(180 * Scale - m))
        ELSE IF m <= 270 * Scale THEN -SinQ(Radians(m - 180 * Scale))
        ELSE -SinQ(Radians(FullTurn - m))

CosDeg(d) ==
    LET m == d % FullTurn
    IN  IF m <= 90 * Scale THEN CosQ(Radians(m))
        ELSE IF m <= 180 * Scale THEN -CosQ(Radians(180 * Scale - m))
        ELSE IF m <= 270 * Scale THEN -CosQ(Radians(m - 180 * Scale))
        ELSE CosQ(Radians(FullTurn - m))

\* atan on [0, 1]: odd minimax polynomial of degree 11
AtanUnit(t) ==
    LET t2 == Mul(t, t)
        p5 == 527 - Mul(117, t2)
        p4 == 1164 - Mul(p5, t2)
        p3 == 1935 - Mul(p4, t2)
        p2 == 3326 - Mul(p3, t2)
        p1 == Scale - Mul(p2, t2)
    IN  Mul(t, p1)

\* math.degrees, to 1e-2 degree
CentiDegrees(r) == (r * 57296) \div 100000

\* math.degrees(math.atan2(y, x)) in 1e-2 degree, in (-18000, 18000]
Atan2Deg(y, x) ==
    LET ax == Abs(x)
        ay == Abs(y)
        a == IF ax = 0 /\ ay = 0 THEN 0
             ELSE IF ay <= ax THEN CentiDegrees(AtanUnit((ay * Scale) \div ax))
             ELSE 9000 - CentiDegrees(AtanUnit((ax * Scale) \div ay))
        b == IF x < 0 THEN 18000 - a ELSE a
    IN  IF y < 0 THEN -b ELSE b

(***************************************************************************)
(* calculate_direction, auc2.py (short labels) and auction.py (long labels)*)
(***************************************************************************)
BearingY(origin_lat, origin_lng, dest_lat, dest_lng) ==
    Mul(SinDeg(dest_lng - origin_lng), CosDeg(dest_lat))

BearingX(origin_lat, origin_lng, dest_lat, dest_lng) ==
    Mul(CosDeg(origin_lat), SinDeg(dest_lat))
      - Mul(Mul(SinDeg(origin_lat), CosDeg(dest_lat)), CosDeg(dest_lng - origin_lng))

\* mutant: the arguments of atan2 are exchanged
bearing_deg_swapped(origin_lat, origin_lng, dest_lat, dest_lng) ==
    (Atan2Deg(BearingX(origin_lat, origin_lng, dest_lat, dest_lng),
              BearingY(origin_lat, origin_lng, dest_lat, dest_lng)) + 36000) % 36000

\* bearing_deg = (math.degrees(math.atan2(y, x)) + 360) % 360, in 1e-2 degree
bearing_deg(origin_lat, origin_lng, dest_lat, dest_lng) ==
    (Atan2Deg(BearingY(origin_lat, origin_lng, dest_lat, dest_lng),
              BearingX(origin_lat, origin_lng, dest_lat, dest_lng)) + 36000) % 36000

dirs == <<"N", "NE", "E", "SE", "S", "SW", "W", "NW">>

\* ix = int((bearing_deg + 22.5) // 45) % 8 ; dirs[ix]
DirectionIndex(bearing) == ((bearing + 2250) \div 4500) % 8

\* auc2.py calculate_direction
calculate_direction(origin_lat, origin_lng, dest_lat, dest_lng) ==
    dirs[DirectionIndex(bearing_deg(origin_lat, origin_lng, dest_lat, dest_lng)) + 1]

\* the if-chain of auction.py calculate_direction
DirectionName(bearing) ==
    IF bearing >= 33750 \/ bearing < 2250 THEN "North"
    ELSE IF bearing < 6750 THEN "Northeast"
    ELSE IF bearing < 11250 THEN "East"
    ELSE IF bearing < 15750 THEN "Southeast"
    ELSE IF bearing < 20250 THEN "South"
    ELSE IF bearing < 24750 THEN "Southwest"
    ELSE IF bearing < 29250 THEN "West"
    ELSE "Northwest"

\* auction.py calculate_direction
calculate_direction_long(origin_lat, origin_lng, dest_lat, dest_lng) ==
    DirectionName(bearing_deg(origin_lat, origin_lng, dest_lat, dest_lng))

(***************************************************************************)
(* The sector step of calculate_direction in double arithmetic.  A bearing *)
(* next to a sector boundary is [edge |-> k, ulps |-> n]: the double n     *)
(* places above (n > 0) or below (n < 0) the boundary 22.5 + 45k degrees.  *)
(* Offsets are counted in units of 2^-48 degree, the spacing of the        *)
(* doubles in [16, 32).                                                    *)
(***************************************************************************)
\* the boundary 22.5 + 45k, in half degrees
SectorEdge(k) == 45 + 90 * k

\* the spacing of the doubles around a value (given in half degrees), in 2^-48 degree
UlpAt(half_degrees) ==
    IF half_degrees < 64 THEN 1
    ELSE IF half_degrees < 128 THEN 2
    ELSE IF half_degrees < 256 THEN 4
    ELSE IF half_degrees < 512 THEN 8
    ELSE 16

\* the offset of the bearing from its boundary, in 2^-48 degree
OffsetOf(bearing) == bearing.ulps * UlpAt(SectorEdge(bearing.edge))

\* round-to-nearest, ties to even: the multiple of ulp a sum with this offset is stored as
RoundHalfEven(offset, ulp) ==
    IF 2 * (offset % ulp) < ulp THEN (offset \div ulp) * ulp
    ELSE IF 2 * (offset % ulp) > ulp THEN (offset \div ulp + 1) * ulp
    ELSE IF (offset \div ulp) % 2 = 0 THEN (offset \div ulp) * ulp
    ELSE (offset \div ulp + 1) * ulp

\* bearing_deg + 22.5 as a double: its offset from 45 * (k + 1)
PlusHalfSector(bearing) ==
    RoundHalfEven(OffsetOf(bearing), UlpAt(90 * (bearing.edge + 1)))

\* ix = int((bearing_deg + 22.5) // 45) % 8 on doubles
DirectionIndexOfDouble(bearing) ==
    (IF PlusHalfSector(bearing) < 0 THEN bearing.edge ELSE bearing.edge + 1) % 8

\* bearing_deg < 22.5 + 45j on doubles (a comparison is exact)
BelowEdge(bearing, j) == bearing.edge < j \/ (bearing.edge = j /\ bearing.ulps < 0)

\* the if-chain of auction.py on doubles
DirectionNameOfDouble(bearing) ==
    IF ~BelowEdge(bearing, 7) \/ BelowEdge(bearing, 0) THEN "North"
    ELSE IF BelowEdge(bearing, 1) THEN "Northeast"
    ELSE IF BelowEdge(bearing, 2) THEN "East"
    ELSE IF BelowEdge(bearing, 3) THEN "Southeast"
    ELSE IF BelowEdge(bearing, 4) THEN "South"
    ELSE IF BelowEdge(bearing, 5) THEN "Southwest"
    ELSE IF BelowEdge(bearing, 6) THEN "West"
    ELSE "Northwest"

(***************************************************************************)
(* auc2.py calculate_driving_time_osrm                                     *)
(***************************************************************************)
\* route_cache[address]["route"][city] = value
SetRoute(cache, address, city, value) ==
    LET c == EnsureKey(cache, address)
        old == c[address].route
        new == [k \in DOMAIN old \cup {city} |-> IF k = city THEN value ELSE old[k]]
    IN  [c EXCEPT ![address].route = new]

\* lines 139-142: a cached triple other than [None, None, None] is a hit
RouteCacheHit(cache, address, city) ==
    /\ address \in DOMAIN cache
    /\ city \in DOMAIN cache[address].route
    /\ cache[address].route[city] # RouteSentinel

\* osrm is what the routing request of this call would answer: <<>> for an exception,
\* an error status or no route, <<duration in seconds, distance in metres>> otherwise.
\* distance_km is kept in metres (km with three decimals).
calculate_driving_time_osrm(origin_lat, origin_lng, dest_lat, dest_lng, route_cache, cache_key, osrm) ==
    LET parts == RSplit1(cache_key, "|")
        address == parts[1]
        city == Capitalize(Strip(parts[2]))
        duration_minutes == osrm[1] \div 60
        distance_km == osrm[2]
        direction == calculate_direction(origin_lat, origin_lng, dest_lat, dest_lng)
        request == << <<"osrm", <<origin_lat, origin_lng, dest_lat, dest_lng>> >> >>
    IN  IF RouteCacheHit(route_cache, address, city)
        THEN [cache |-> route_cache, ret |-> route_cache[address].route[city], calls |-> <<>>]
        ELSE IF osrm # <<>>
        THEN [cache |-> SetRoute(route_cache, address, city, <<duration_minutes, distance_km, direction>>),
              ret |-> <<duration_minutes, distance_km, direction>>, calls |-> request]
        ELSE [cache |-> SetRoute(route_cache, address, city, RouteSentinel),
              ret |-> RouteSentinel, calls |-> request]

\* REFS, in 1e-4 degree
REFS == [calgary |-> [lat |-> 510604, lng |-> -1141801],
         edmonton |-> [lat |-> 535880, lng |-> -1134314]]

(***************************************************************************)
(* run_auction_monitor: remaining time and its classification              *)
(* (auc2.py lines 655-698)                                                 *)
(***************************************************************************)
\* str(n) for n >= 0 and int(digits)
RECURSIVE IntToStr(_)
IntToStr(n) == IF n < 10 THEN <<Digits[n + 1]>> ELSE IntToStr(n \div 10) \o <<Digits[(n % 10) + 1]>>

DigitValue(c) == (CHOOSE i \in 1..10 : Digits[i] = c) - 1

RECURSIVE StrToInt(_)
StrToInt(str) ==
    IF Len(str) = 1 THEN DigitValue(str[1])
    ELSE 10 * StrToInt(SubSeq(str, 1, Len(str) - 1)) + DigitValue(str[Len(str)])

\* str.split(sep)[0] for a one-character separator
RECURSIVE BeforeFirst(_, _)
BeforeFirst(str, c) ==
    IF str = <<>> \/ Head(str) = c THEN <<>> ELSE <<Head(str)>> \o BeforeFirst(Tail(str), c)

StrEnded == <<"E","n","d","e","d">>
StrUnknown == <<"U","n","k","n","o","w","n">>
StrParseError == <<"P","a","r","s","e","E","r","r","o","r">>

\* timedelta fields of dt_end - now, for whole seconds
TimedeltaDays(r) == r \div 86400
TimedeltaSeconds(r) == r % 86400

\* mutant: the days of the timedelta are left out of the hour count
RemainingHours_secondsOnly(r) == TimedeltaSeconds(r) \div 3600

\* hours = remaining.days * 24 + remaining.seconds // 3600
RemainingHours(r) == TimedeltaDays(r) * 24 + TimedeltaSeconds(r) \div 3600

\* minutes = (remaining.seconds % 3600) // 60
RemainingMinutes(r) == (TimedeltaSeconds(r) % 3600) \div 60

\* The deadline text of a detail page is [kind, dt_end]: kind "match" when the
\* pattern matches and the fields make a date, "nomatch" when re.search finds
\* nothing, "invalid" when strptime or datetime raises.  dt_end and now are seconds.
remaining_str(bidding_ends_at, now) ==
    IF bidding_ends_at.kind = "invalid" THEN StrParseError
    ELSE IF bidding_ends_at.kind = "nomatch" THEN StrUnknown
    ELSE LET remaining == bidding_ends_at.dt_end - now
         IN  IF remaining > 0
             THEN IntToStr(RemainingHours(remaining)) \o <<"h", " ">>
                    \o IntToStr(RemainingMinutes(remaining)) \o <<"m">>
             ELSE StrEnded

\* the guard shared by lines 676 and 686-688
HasHours(rs) == rs # StrEnded /\ rs # StrUnknown /\ rs # StrParseError /\ Contains(rs, <<"h">>)

\* h = int(remaining_str.split('h')[0])
HoursOf(rs) == StrToInt(BeforeFirst(rs, "h"))

\* mutant: the threshold of the deferral is 72 hours
IsNotSoon_72h(rs) == HasHours(rs) /\ HoursOf(rs) >= 72

\* lines 676-678: the item is not urgent, sleep and re-check it
IsNotSoon(rs) == HasHours(rs) /\ HoursOf(rs) >= 48

\* lines 688-690 and 694-696: the windows of the two alert tiers
InTier1Window(rs) == HasHours(rs) /\ HoursOf(rs) < 48
InTier2Window(rs) == HasHours(rs) /\ HoursOf(rs) < 1

\* the state of section 4.3 that these branches amount to
Classify(rs) ==
    IF rs = StrEnded THEN "Ended"
    ELSE IF rs = StrUnknown \/ rs = StrParseError THEN "Unparseable"
    ELSE IF IsNotSoon(rs) THEN "NotSoon"
    ELSE IF InTier2Window(rs) THEN "Imminent"
    ELSE IF InTier1Window(rs) THEN "DueSoon"
    ELSE "Unparseable"

(***************************************************************************)
(* The record table of run_auction_monitor: a pandas DataFrame             *)
(*   [cols    |-> the column names,                                        *)
(*    numeric |-> the columns whose dtype is numeric,                      *)
(*    rows    |-> the rows, each a function from cols to cell values]      *)
(* A missing value (NaN) is None in a number column and NaN in a text      *)
(* column.  The descriptive fields of a row are represented by current_bid.*)
(***************************************************************************)
NaN == "nan"
True == "True"
EmptyStr == ""

ColItemUrl == "item_url"
ColBid == "current_bid"
ColLat == "auction_lat"
ColLng == "auction_lng"
Col12 == "reported within 12 hours"
Col1 == "reported within 1 hour"
RefNames == <<"calgary", "edmonton">>
RouteCols == [calgary |-> <<"calgary_drive_minutes", "calgary_drive_km", "calgary_direction">>,
              edmonton |-> <<"edmonton_drive_minutes", "edmonton_drive_km", "edmonton_direction">>]
NumberCols == {ColLat, ColLng, "calgary_drive_minutes", "calgary_drive_km",
               "edmonton_drive_minutes", "edmonton_drive_km"}

NaNOf(col) == IF col \in NumberCols THEN None ELSE NaN
IsMissing(col, v) == IF col \in NumberCols THEN v = None ELSE v \in {NaN, NoneStr}

\* pd.DataFrame()
EmptyDf == [cols |-> {}, numeric |-> {}, rows |-> <<>>]

\* df.empty
DfEmpty(frame) == frame.cols = {} \/ frame.rows = <<>>

\* set(df["item_url"]) if not df.empty and "item_url" in df.columns else set()
ItemUrlSet(frame) ==
    IF ~DfEmpty(frame) /\ ColItemUrl \in frame.cols
    THEN {frame.rows[i][ColItemUrl] : i \in 1..Len(frame.rows)} ELSE {}

\* a value that keeps a numeric column numeric when it is stored in it
KeepsNumeric(col, v) == IF col \in NumberCols THEN TRUE ELSE v = NaN

\* the dtype of the column a one-row DataFrame([row]) gets for value v
NumericInNewRow(col, v) == IF col \in NumberCols THEN v # None ELSE v = NaN

\* a row over more columns, missing values filled in
Widen(r, cols) == [c \in cols |-> IF c \in DOMAIN r THEN r[c] ELSE NaNOf(c)]

\* pd.concat([df, pd.DataFrame([row])], ignore_index=True)
Concat(frame, row) ==
    LET cols == frame.cols \cup DOMAIN row
    IN  [cols |-> cols,
         numeric |-> {c \in cols : /\ (c \in frame.cols => c \in frame.numeric)
                                   /\ (c \in DOMAIN row => NumericInNewRow(c, row[c]))},
         rows |-> [i \in 1..Len(frame.rows) |-> Widen(frame.rows[i], cols)] \o <<Widen(row, cols)>>]

\* df.loc[df["item_url"] == item_url, k] = vals[k] for every k in keys (keys within frame.cols)
LocSet(frame, item_url, vals, keys) ==
    LET hit == \E i \in 1..Len(frame.rows) : frame.rows[i][ColItemUrl] = item_url
    IN  [cols |-> frame.cols,
         numeric |-> IF hit THEN {c \in frame.numeric : c \in keys => KeepsNumeric(c, vals[c])}
                     ELSE frame.numeric,
         rows |-> [i \in 1..Len(frame.rows) |->
                     IF frame.rows[i][ColItemUrl] = item_url
                     THEN [c \in frame.cols |-> IF c \in keys THEN vals[c] ELSE frame.rows[i][c]]
                     ELSE frame.rows[i]]]

\* .loc with a list of column labels adds the labels that are missing
AddColumns(frame, cols) ==
    [cols |-> frame.cols \cup cols,
     numeric |-> frame.numeric,
     rows |-> [i \in 1..Len(frame.rows) |-> Widen(frame.rows[i], frame.cols \cup cols)]]

\* the nested clean_row_types: '' destined for a numeric column becomes np.nan
clean_row_types(row_dict, frame) ==
    [k \in DOMAIN row_dict |->
        IF k \in frame.cols /\ k \in frame.numeric /\ k \notin NumberCols /\ row_dict[k] = EmptyStr
        THEN NaN ELSE row_dict[k]]

\* mutant: the membership test is skipped and the row is always appended
UpsertRow_alwaysAppend(frame, url_set, row) ==
    [frame |-> Concat(frame, IF ~DfEmpty(frame) THEN clean_row_types(row, frame) ELSE row),
     url_set |-> url_set \cup {row[ColItemUrl]}]

\* lines 723-735: save/update the row of a non-concluded item
UpsertRow(frame, url_set, row) ==
    IF row[ColItemUrl] \in url_set
    THEN LET cleaned_row == clean_row_types(row, frame)
         IN  [frame |-> LocSet(frame, row[ColItemUrl], cleaned_row, DOMAIN cleaned_row \cap frame.cols),
              url_set |-> url_set]
    ELSE [frame |-> Concat(frame, IF ~DfEmpty(frame) THEN clean_row_types(row, frame) ELSE row),
          url_set |-> url_set \cup {row[ColItemUrl]}]

\* mutant: an item that has no row yet is not appended
UpsertConcluded_updateOnly(frame, url_set, row) ==
    IF row[ColItemUrl] \in url_set
    THEN [frame |-> LocSet(AddColumns(frame, DOMAIN row), row[ColItemUrl], row, DOMAIN row),
          url_set |-> url_set]
    ELSE [frame |-> frame, url_set |-> url_set]

\* lines 613-617: save/update the row of a concluded item
UpsertConcluded(frame, url_set, row) ==
    IF row[ColItemUrl] \in url_set
    THEN [frame |-> LocSet(AddColumns(frame, DOMAIN row), row[ColItemUrl], row, DOMAIN row),
          url_set |-> url_set]
    ELSE [frame |-> Concat(frame, row), url_set |-> url_set \cup {row[ColItemUrl]}]

\* df.to_excel(EXCEL_FILE, index=False): the sheet keeps the columns and cells
ToExcel(frame) == [cols |-> frame.cols, rows |-> frame.rows]

NoExcelFile == [cols |-> {}, rows |-> <<>>]

\* pd.read_excel(EXCEL_FILE): an empty cell is read as NaN, and a column whose cells
\* are all numbers or empty gets a numeric dtype
ReadCell(col, v) == IF col \notin NumberCols /\ v \in {EmptyStr, NoneStr} THEN NaN ELSE v

ReadExcel(file) ==
    LET rows == [i \in 1..Len(file.rows) |-> [c \in file.cols |-> ReadCell(c, file.rows[i][c])]]
    IN  [cols |-> file.cols,
         numeric |-> {c \in file.cols : \A i \in 1..Len(rows) : KeepsNumeric(c, rows[i][c])},
         rows |-> rows]

(***************************************************************************)
(* run_auction_monitor (auc2.py lines 565-739)                             *)
(***************************************************************************)
MaxPasses == 3

Items == {"u1", "u2"}
NoItem == "none"

\* row.get("location") or row.get("auction_location", ""): the address each item's pages give
ItemAddress == [u1 |-> <<"5"," ","1","s","t"," ","S","t">>, u2 |-> <<"t","b","a">>]

\* what get_auction_links may return, and the items the pages of each auction may list
Listings == {<<>>, <<"a1">>}
AuctionPages == [a1 |-> {<<"u1">>, <<"u1", "u2">>},
                 b1 |-> {<<"u1">>}, b2 |-> {<<>>}, b3 |-> {<<>>}, b4 |-> {<<"u2">>}]

\* listings of no, two and four auctions; the pages of b2 and b3 list no item
LongListings == {<<>>, <<"b1", "b2">>, <<"b1", "b2", "b3", "b4">>, <<"b4", "b1", "b2", "b3">>}

\* mutant: every auction of the listing is processed
FirstThree_all(infos) == infos

\* auction_infos[:3] (line 581)
FirstThree(infos) == SubSeq(infos, 1, Min(3, Len(infos)))

\* what get_item_details_full may return for an item: whether other_details holds
\* 'Bidding Has Concluded', the deadline text and the current bid
DeadlineTexts ==
    {[kind |-> "nomatch", dt_end |-> 0], [kind |-> "invalid", dt_end |-> 0]}
      \cup {[kind |-> "match", dt_end |-> t] : t \in {1000, 2800, 8200, 173800}}
ClockSamples == {1000}
DetailPages == [concluded : BOOLEAN, bidding_ends_at : DeadlineTexts, current_bid : {EmptyStr, "$5"}]

\* what the geocoding and routing requests of one pass may answer
PassGeocodeAnswers == {[exact |-> <<535461, -1134938>>, simplified |-> <<>>, google |-> <<>>]}
PassOsrmAnswers == {<<7260, 181500>>}

RefNameChars == [calgary |-> <<"c","a","l","g","a","r","y">>,
                 edmonton |-> <<"e","d","m","o","n","t","o","n">>]

NoPass == [item |-> NoItem, path |-> "none", state |-> "none", existed |-> FALSE,
           notified |-> FALSE, tier |-> 0, delivered |-> FALSE]

MonitorAtStart ==
    /\ df = EmptyDf
    /\ item_url_set = {}
    /\ excel_file = NoExcelFile
    /\ pc = "listing"
    /\ auction_infos = <<>>
    /\ auction_idx = 1
    /\ items = <<>>
    /\ idx = 1
    /\ sent = [u \in Items |-> [tier1 |-> 0, tier2 |-> 0]]
    /\ last = NoPass
    /\ passes_left = MaxPasses

\* bool(value) of a cell value
PyBool(v) == v \notin {EmptyStr, NoneStr}

\* mutant: without coordinates the route fields get default values instead of None
RouteStep_defaults(ref_name, address, lat, lng, cache, osrm) ==
    IF lat # None /\ lng # None
    THEN calculate_driving_time_osrm(REFS[ref_name].lat, REFS[ref_name].lng, lat, lng, cache,
                                     address \o <<"|">> \o Capitalize(RefNameChars[ref_name]), osrm)
    ELSE [cache |-> cache, ret |-> <<0, 0, "N">>, calls |-> <<>>]

\* the route step of one reference point (lines 601-609 and 626-634)
RouteStep(ref_name, address, lat, lng, cache, osrm) ==
    IF lat # None /\ lng # None
    THEN calculate_driving_time_osrm(REFS[ref_name].lat, REFS[ref_name].lng, lat, lng, cache,
                                     address \o <<"|">> \o Capitalize(RefNameChars[ref_name]), osrm)
    ELSE [cache |-> cache, ret |-> RouteSentinel, calls |-> <<>>]

\* row[f"{ref_name}_driving_minutes"], ..._distance_km, ..._direction = the triple
\* (lines 607-609 and 632-634), with the cache and the requests of the route step
AddRoute(ref_name, acc, r) ==
    [row |-> [c \in {RouteCols[ref_name][i] : i \in 1..3} |->
                 r.ret[CHOOSE i \in 1..3 : RouteCols[ref_name][i] = c]] @@ acc.row,
     cache |-> r.cache,
     calls |-> acc.calls \o r.calls]

\* for ref_name, ref in REFS.items(): ... (lines 601-609 and 626-634)
RECURSIVE RouteLoop(_, _, _, _)
RouteLoop(ref_names, address, acc, osrm) ==
    IF ref_names = <<>> THEN acc
    ELSE RouteLoop(Tail(ref_names), address,
                   AddRoute(Head(ref_names), acc,
                            RouteStep(Head(ref_names), address, acc.row[ColLat], acc.row[ColLng],
                                      acc.cache, osrm)),
                   osrm)

\* the row after lat, lng = geocode_address(address, combined_cache) (lines 597-600, 622-625)
Geocoded(item_url, details, g) ==
    [row |-> (ColItemUrl :> item_url) @@ (ColBid :> details.current_bid)
               @@ (ColLat :> g.ret[1]) @@ (ColLng :> g.ret[2]),
     cache |-> g.cache,
     calls |-> g.calls]

\* row = {**auction_info, **item, **details} followed by the geocode and route
\* enrichment (lines 596-609 and 621-634): the row and the cache afterwards
Enrich(item_url, details, cache, geo, osrm) ==
    RouteLoop(<<"calgary", "edmonton">>, ItemAddress[item_url],
              Geocoded(item_url, details, geocode_address(ItemAddress[item_url], cache, geo)),
              osrm)

\* row[k] = v
SetKey(row, k, v) == [c \in DOMAIN row \cup {k} |-> IF c = k THEN v ELSE row[c]]

\* row.get(k, default)
GetKey(row, k, default) == IF k \in DOMAIN row THEN row[k] ELSE default

\* lines 649-654: the flags are read from the row built in this pass
reported_12(row) == IF Col12 \in DOMAIN row THEN PyBool(row[Col12]) ELSE FALSE
reported_1(row) == IF Col1 \in DOMAIN row THEN PyBool(row[Col1]) ELSE FALSE

\* mutant: the deadline window is not consulted
ReportTier1_anyDeadline(row, rs) == ~reported_12(row)

\* lines 688-692: the tier-1 decision
ReportTier1(row, rs) == ~reported_12(row) /\ InTier1Window(rs)

\* mutant: the tier-2 decision sees the flag the tier-1 branch has just set
ReportTier2_chained(row, rs) ==
    (reported_12(row) \/ ReportTier1(row, rs)) /\ ~reported_1(row) /\ InTier2Window(rs)

\* lines 694-698: the tier-2 decision
ReportTier2(row, rs) == reported_12(row) /\ ~reported_1(row) /\ InTier2Window(rs)

\* the row after the reporting logic has set its flags
FlaggedRow(row, rs) ==
    LET row1 == IF ReportTier1(row, rs) THEN SetKey(row, Col12, True) ELSE row
    IN  IF ReportTier2(row, rs) THEN SetKey(row1, Col1, True) ELSE row1

\* line 567-571: the listing has no Alberta auction; sleep 600 s and fetch again
NoAuctions ==
    /\ pc = "listing"
    /\ last' = [NoPass EXCEPT !.path = "no_auctions"]
    /\ UNCHANGED <<cacheVars, callVars, pureVars, propertyVars, tableVars, loopVars, sent, passes_left, timeVars>>

\* lines 567-580: a cycle starts, the cache and the table are loaded from their files
CycleStarts(listings) ==
    /\ \E listing \in listings \ {<<>>} : auction_infos' = listing
    /\ combined_cache' = cache_file
    /\ df' = ReadExcel(excel_file)
    /\ item_url_set' = ItemUrlSet(df')
    /\ auction_idx' = 1
    /\ pc' = "auction"
    /\ UNCHANGED <<cache_file, callVars, pureVars, propertyVars, excel_file, items, idx, logVars, timeVars>>

\* lines 567-580 for the listings of one auction
StartCycle ==
    /\ pc = "listing"
    /\ CycleStarts(Listings)

\* lines 581-588: the next of the first three auctions, its pages and items
StartAuction ==
    /\ pc = "auction"
    /\ auction_idx <= Len(FirstThree(auction_infos))
    /\ \E page \in AuctionPages[auction_infos[auction_idx]] : items' = page
    /\ idx' = 1
    /\ pc' = "item"
    /\ UNCHANGED <<cacheVars, callVars, pureVars, propertyVars, tableVars, auction_infos, auction_idx, logVars, timeVars>>

\* line 589: the while loop over the items ends, the for loop goes on
ItemsDone ==
    /\ pc = "item"
    /\ idx > Len(items)
    /\ auction_idx' = auction_idx + 1
    /\ pc' = "auction"
    /\ UNCHANGED <<cacheVars, callVars, pureVars, propertyVars, tableVars, auction_infos, items, idx, logVars, timeVars>>

\* lines 738-739: after the last auction the table is written, the cycle repeats
EndCycle ==
    /\ pc = "auction"
    /\ auction_idx > Len(FirstThree(auction_infos))
    /\ excel_file' = ToExcel(df)
    /\ pc' = "listing"
    /\ UNCHANGED <<cacheVars, callVars, pureVars, propertyVars, df, item_url_set, auction_infos, auction_idx, items, idx, logVars, timeVars>>

\* lines 183-186, 253-256, 306-309 called at lines 567, 587, 592: requests.get or
\* raise_for_status raises in get_auction_links, get_items_from_auction_page or
\* get_item_details_full; run_auction_monitor has no try around the calls, so the
\* exception leaves the while loop and the function
FetchRaises ==
    /\ \/ pc = "listing"
       \/ pc = "auction" /\ auction_idx <= Len(FirstThree(auction_infos))
       \/ pc = "item" /\ idx <= Len(items)
    /\ pc' = "terminated"
    /\ UNCHANGED <<cacheVars, callVars, pureVars, propertyVars, tableVars, auction_infos, auction_idx, items, idx, logVars, timeVars>>

\* lines 611-617: the flags default to "", the row is written over the stored one
ConcludedRow(row) ==
    SetKey(SetKey(row, Col12, GetKey(row, Col12, EmptyStr)), Col1, GetKey(row, Col1, EmptyStr))

ConcludedUpsert(item_url, e, u) ==
    /\ combined_cache' = e.cache
    /\ df' = u.frame
    /\ item_url_set' = u.url_set
    /\ last' = [NoPass EXCEPT !.item = item_url, !.path = "concluded",
                              !.existed = (item_url \in item_url_set)]

ConcludedStep(item_url, e) ==
    ConcludedUpsert(item_url, e, UpsertConcluded(df, item_url_set, ConcludedRow(e.row)))

\* lines 592-619: the detail page says 'Bidding Has Concluded'
ConcludedPass ==
    /\ pc = "item" /\ idx <= Len(items) /\ passes_left > 0
    /\ \E details \in DetailPages, geo \in PassGeocodeAnswers, osrm \in PassOsrmAnswers :
         /\ details.concluded
         /\ ConcludedStep(items[idx], Enrich(items[idx], details, combined_cache, geo, osrm))
    /\ idx' = idx + 1
    /\ passes_left' = passes_left - 1
    /\ UNCHANGED <<cache_file, callVars, pureVars, propertyVars, excel_file, pc, auction_infos, auction_idx, items, sent, timeVars>>

\* mutant: the row of the item is upserted before the loop sleeps on it
NotSoonStep_upserts(item_url, e) ==
    /\ combined_cache' = e.cache
    /\ cache_file' = e.cache
    /\ df' = UpsertRow(df, item_url_set, e.row).frame
    /\ item_url_set' = UpsertRow(df, item_url_set, e.row).url_set
    /\ excel_file' = ToExcel(df')
    /\ last' = [NoPass EXCEPT !.item = item_url, !.path = "notsoon", !.state = "NotSoon",
                              !.existed = (item_url \in item_url_set)]

\* lines 636 and 676-683: the cache and the table are written, the item is kept and
\* its row is not touched
NotSoonStep(item_url, e) ==
    /\ combined_cache' = e.cache
    /\ cache_file' = e.cache
    /\ df' = df
    /\ item_url_set' = item_url_set
    /\ excel_file' = ToExcel(df)
    /\ last' = [NoPass EXCEPT !.item = item_url, !.path = "notsoon", !.state = "NotSoon",
                              !.existed = (item_url \in item_url_set)]

\* lines 620-683: the item has 48 hours or more left; the cache and the table are
\* written, the loop sleeps 40-80 minutes and re-checks the same item
NotSoonPass ==
    /\ pc = "item" /\ idx <= Len(items) /\ passes_left > 0
    /\ \E details \in DetailPages, geo \in PassGeocodeAnswers, osrm \in PassOsrmAnswers,
          now \in ClockSamples :
         /\ ~details.concluded
         /\ IsNotSoon(remaining_str(details.bidding_ends_at, now))
         /\ NotSoonStep(items[idx], Enrich(items[idx], details, combined_cache, geo, osrm))
    /\ passes_left' = passes_left - 1
    /\ UNCHANGED <<callVars, pureVars, propertyVars, loopVars, sent, timeVars>>

\* lines 699-705: should_report and the tier of the alert
ShouldReport(row, rs) == ReportTier1(row, rs) \/ ReportTier2(row, rs)
TierOf(row, rs) == IF ReportTier2(row, rs) THEN 2 ELSE IF ReportTier1(row, rs) THEN 1 ELSE 0

\* lines 707-712: one alert of the tier is handed to send_telegram_message
Notify(item_url, should_report, tier) ==
    IF ~should_report THEN sent
    ELSE IF tier = 2 THEN [sent EXCEPT ![item_url].tier2 = @ + 1]
    ELSE [sent EXCEPT ![item_url].tier1 = @ + 1]

\* mutant: a send that fails raises past the upsert of lines 713-735
NormalUpsert_sendRaises(item_url, e, rs, delivered, should_report, tier, u) ==
    /\ (delivered => should_report)
    /\ combined_cache' = e.cache
    /\ cache_file' = e.cache
    /\ sent' = Notify(item_url, should_report, tier)
    /\ df' = IF should_report /\ ~delivered THEN df ELSE u.frame
    /\ item_url_set' = IF should_report /\ ~delivered THEN item_url_set ELSE u.url_set
    /\ last' = [item |-> item_url, path |-> "normal", state |-> Classify(rs),
                existed |-> (item_url \in item_url_set),
                notified |-> should_report, tier |-> tier, delivered |-> delivered]

\* lines 707-735: the send sits in try/except (and send_telegram_message logs a
\* failure and returns), the upsert follows whatever the outcome
NormalUpsert(item_url, e, rs, delivered, should_report, tier, u) ==
    /\ (delivered => should_report)
    /\ combined_cache' = e.cache
    /\ cache_file' = e.cache
    /\ sent' = Notify(item_url, should_report, tier)
    /\ df' = u.frame
    /\ item_url_set' = u.url_set
    /\ last' = [item |-> item_url, path |-> "normal", state |-> Classify(rs),
                existed |-> (item_url \in item_url_set),
                notified |-> should_report, tier |-> tier, delivered |-> delivered]

\* mutant: the flags set for an alert are taken back when the send fails
NormalStep_rollback(item_url, e, rs, delivered) ==
    NormalUpsert(item_url, e, rs, delivered, ShouldReport(e.row, rs), TierOf(e.row, rs),
                 UpsertRow(df, item_url_set,
                           IF ShouldReport(e.row, rs) /\ ~delivered THEN e.row ELSE FlaggedRow(e.row, rs)))

\* lines 636-735: cache written, alert decided and sent, row upserted
NormalStep(item_url, e, rs, delivered) ==
    NormalUpsert(item_url, e, rs, delivered, ShouldReport(e.row, rs), TierOf(e.row, rs),
                 UpsertRow(df, item_url_set, FlaggedRow(e.row, rs)))

\* lines 620-737: any other item: cache written, alert decided and sent, row upserted
NormalPass ==
    /\ pc = "item" /\ idx <= Len(items) /\ passes_left > 0
    /\ \E details \in DetailPages, geo \in PassGeocodeAnswers, osrm \in PassOsrmAnswers,
          now \in ClockSamples, delivered \in BOOLEAN :
         /\ ~details.concluded
         /\ ~IsNotSoon(remaining_str(details.bidding_ends_at, now))
         /\ NormalStep(items[idx], Enrich(items[idx], details, combined_cache, geo, osrm),
                       remaining_str(details.bidding_ends_at, now), delivered)
    /\ idx' = idx + 1
    /\ passes_left' = passes_left - 1
    /\ UNCHANGED <<callVars, pureVars, propertyVars, excel_file, pc, auction_infos, auction_idx, items, timeVars>>

(***************************************************************************)
(* auction.py: the property table and check_for_new_properties             *)
(***************************************************************************)
ColMls == "MLS Number"
ColCategory == "Property Category"
ColPrice == "Price"
NA == "N/A"

\* the categories of url_categories, in the order they are checked
url_categories == <<"alberta-acreages", "calgary-single-family", "walkout-basement", "price-reduced">>

\* pd.DataFrame()
EmptyFrame == [cols |-> {}, rows |-> <<>>]

\* df.empty
FrameEmpty(frame) == frame.cols = {} \/ frame.rows = <<>>

\* os.path.exists(EXCEL_FILE) is false
NoPropertyFile == [exists |-> FALSE, cols |-> {}, rows |-> <<>>]

\* combined_df.to_excel(EXCEL_FILE, index=False): a NaN cell is written empty
WriteProperties(frame) ==
    [exists |-> TRUE, cols |-> frame.cols,
     rows |-> [i \in 1..Len(frame.rows) |->
                 [c \in frame.cols |-> IF frame.rows[i][c] = NaN THEN EmptyStr ELSE frame.rows[i][c]]]]

\* pd.read_excel(EXCEL_FILE): an empty cell and the text 'N/A' are read as NaN
ReadProperties(file) ==
    [cols |-> file.cols,
     rows |-> [i \in 1..Len(file.rows) |->
                 [c \in file.cols |-> IF file.rows[i][c] \in {EmptyStr, NA} THEN NaN ELSE file.rows[i][c]]]]

\* existing_df[existing_df['Property Category'] == property_category]
CategoryRows(frame, property_category) ==
    LET InCategory(r) == r[ColCategory] = property_category
    IN  [cols |-> frame.cols, rows |-> SelectSeq(frame.rows, InCategory)]

\* existing_df[existing_df['Property Category'] != property_category]
NotCategoryRows(frame, property_category) ==
    LET NotInCategory(r) == r[ColCategory] # property_category
    IN  [cols |-> frame.cols, rows |-> SelectSeq(frame.rows, NotInCategory)]

\* a row over more columns, NaN where it has no value
WidenRow(r, cols) == [c \in cols |-> IF c \in DOMAIN r THEN r[c] ELSE NaN]

\* pd.concat([a, b], ignore_index=True)
ConcatFrames(a, b) ==
    [cols |-> a.cols \cup b.cols,
     rows |-> [i \in 1..Len(a.rows) |-> WidenRow(a.rows[i], a.cols \cup b.cols)]
                \o [i \in 1..Len(b.rows) |-> WidenRow(b.rows[i], a.cols \cup b.cols)]]

\* load_existing_properties(property_category): the table read from the file and the
\* MLS number of the first row of the category (None when there is none)
load_existing_properties(file, property_category) ==
    IF file.exists /\ ~FrameEmpty(ReadProperties(file)) /\ ColMls \in file.cols
    THEN IF ColCategory \in file.cols
         THEN IF ~FrameEmpty(CategoryRows(ReadProperties(file), property_category))
              THEN [df |-> ReadProperties(file),
                    most_recent_mls |-> CategoryRows(ReadProperties(file), property_category).rows[1][ColMls]]
              ELSE [df |-> ReadProperties(file), most_recent_mls |-> NoneStr]
         ELSE [df |-> ReadProperties(file), most_recent_mls |-> ReadProperties(file).rows[1][ColMls]]
    ELSE [df |-> EmptyFrame, most_recent_mls |-> NoneStr]

\* for prop in new_properties: prop['Property Category'] = property_category ;
\* new_df = pd.DataFrame(new_properties)
new_df(new_properties, property_category) ==
    [cols |-> UNION {DOMAIN new_properties[i] : i \in 1..Len(new_properties)} \cup {ColCategory},
     rows |-> [i \in 1..Len(new_properties) |->
                 WidenRow(SetKey(new_properties[i], ColCategory, property_category),
                          UNION {DOMAIN new_properties[k] : k \in 1..Len(new_properties)}
                            \cup {ColCategory})]]

\* lines 683-689: the stored rows of the category being saved
same_category_df(existing_df, property_category) ==
    IF ColCategory \in existing_df.cols THEN CategoryRows(existing_df, property_category)
    ELSE EmptyFrame

\* mutant: the rows of the other categories are not carried over
other_categories_df_dropped(existing_df, property_category) == EmptyFrame

\* lines 683-689: the stored rows of every other category
other_categories_df(existing_df, property_category) ==
    IF ColCategory \in existing_df.cols THEN NotCategoryRows(existing_df, property_category)
    ELSE existing_df

\* mutant: the new properties are appended below the stored rows of the category
combined_same_category_appended(new_properties, existing_df, property_category) ==
    IF ~FrameEmpty(same_category_df(existing_df, property_category))
    THEN ConcatFrames(same_category_df(existing_df, property_category),
                      new_df(new_properties, property_category))
    ELSE new_df(new_properties, property_category)

\* lines 692-695: new properties + existing same category
combined_same_category(new_properties, existing_df, property_category) ==
    IF ~FrameEmpty(same_category_df(existing_df, property_category))
    THEN ConcatFrames(new_df(new_properties, property_category),
                      same_category_df(existing_df, property_category))
    ELSE new_df(new_properties, property_category)

\* lines 680-701: ... + other categories
combined_df(new_properties, existing_df, property_category) ==
    IF ~FrameEmpty(existing_df)
    THEN IF ~FrameEmpty(other_categories_df(existing_df, property_category))
         THEN ConcatFrames(combined_same_category(new_properties, existing_df, property_category),
                           other_categories_df(existing_df, property_category))
         ELSE combined_same_category(new_properties, existing_df, property_category)
    ELSE new_df(new_properties, property_category)

\* save_properties_to_excel(new_properties, existing_df, property_category): the file
\* afterwards and the value returned
save_properties_to_excel(new_properties, existing_df, property_category, file) ==
    IF new_properties # <<>>
    THEN [file |-> WriteProperties(combined_df(new_properties, existing_df, property_category)),
          saved |-> TRUE]
    ELSE [file |-> file, saved |-> FALSE]

\* extract_property_details: the row of a listing (the fields the table is keyed and
\* compared on)
extract_property_details(mls_number, price) == (ColMls :> mls_number) @@ (ColPrice :> price)

\* lines 932-966: the listings of the page in order; only the most recent MLS number
\* of the category is skipped, every other listing is a new property
RECURSIVE NewProperties(_, _, _)
NewProperties(property_sections, most_recent_mls, price) ==
    IF property_sections = <<>> THEN <<>>
    ELSE IF most_recent_mls # NoneStr /\ Head(property_sections) = most_recent_mls
    THEN NewProperties(Tail(property_sections), most_recent_mls, price)
    ELSE <<extract_property_details(Head(property_sections), price)>>
           \o NewProperties(Tail(property_sections), most_recent_mls, price)

MaxSaves == 2
MlsNumbers == {"A1", "A2"}
Prices == {"$1", NA}

\* what the five pages of a category may list, newest first
PropertySections ==
    {<<>>} \cup {<<a>> : a \in MlsNumbers}
           \cup {m \in MlsNumbers \X MlsNumbers : m[1] # m[2]}

\* a table written before the category column existed (lines 656-660 and 686-689)
UncategorisedFile ==
    [exists |-> TRUE, cols |-> {ColMls, ColPrice},
     rows |-> <<(ColMls :> "A1") @@ (ColPrice :> "$1")>>]

\* a table two earlier saves have written: one listing in each of two categories
CategorisedFile ==
    [exists |-> TRUE, cols |-> {ColMls, ColPrice, ColCategory},
     rows |-> <<(ColMls :> "A1") @@ (ColPrice :> "$1") @@ (ColCategory :> url_categories[1]),
                (ColMls :> "A2") @@ (ColPrice :> "$1") @@ (ColCategory :> url_categories[2])>>]

NotChecked == [path |-> "none", category |-> NoneStr, existing_df |-> EmptyFrame,
               most_recent_mls |-> NoneStr, new_properties |-> <<>>, saved |-> FALSE]

\* run_continuous_monitor has not gone through its loop yet
NotScheduled == [path |-> "none", now_mt |-> 0, next_check_datetime |-> 0, sleep_seconds |-> 0,
                 raised |-> "none"]

\* no item has been listed yet
TimeAtStart ==
    /\ clock = 0
    /\ ends_at = [u \in Items |-> 0]
    /\ listed_at = [u \in Items |-> None]
    /\ fetched_at = None
    /\ schedule = NotScheduled

PropertiesAtStart ==
    /\ EXCEL_FILE = NoPropertyFile
    /\ url_idx = 1
    /\ telegram = [k \in MlsNumbers \X {url_categories[i] : i \in 1..Len(url_categories)} |-> 0]
    /\ checked = NotChecked
    /\ saves_left = MaxSaves

(***************************************************************************)
(* calculate_direction calls                                               *)
(***************************************************************************)
NotPointed == [phase |-> "none", origin |-> <<0, 0>>, dest |-> <<0, 0>>, y |-> 0, x |-> 0,
               bearing |-> 0, short |-> EmptyStr, long |-> EmptyStr]

CallsAtStart ==
    /\ call = [fn |-> "none", key |-> <<>>, city |-> <<>>, before |-> <<>>, prior |-> <<>>,
               answers |-> <<>>, ret |-> <<>>, calls |-> <<>>]
    /\ resolved = [a \in {} |-> <<>>]
    /\ calls_left = 0

\* send_telegram_message has not been called
NotSent == [phase |-> "none", bot |-> NoneStr, MY_CHANNEL_ID |-> NoneStr, channel_id |-> NoneStr,
            loop |-> "idle", attempts |-> <<>>, log |-> <<>>, raised |-> FALSE]

NotClassified == [phase |-> "none", text |-> [kind |-> "nomatch", dt_end |-> 0], now |-> 0,
                  rs |-> <<>>, state |-> "none"]

Init ==
    /\ combined_cache = EmptyCache
    /\ cache_file = EmptyCache
    /\ CallsAtStart
    /\ MonitorAtStart
    /\ classified = NotClassified
    /\ tg_call = NotSent
    /\ pointed = NotPointed
    /\ PropertiesAtStart
    /\ TimeAtStart

Next ==
    \/ NoAuctions
    \/ StartCycle
    \/ StartAuction
    \/ ItemsDone
    \/ EndCycle
    \/ ConcludedPass
    \/ NotSoonPass
    \/ NormalPass
    \/ FetchRaises

Spec == Init /\ [][Next]_vars

(***************************************************************************)
(* Specification SpecClassify: lines 655-698 applied to one deadline text  *)
(* and clock reading, for remaining times around the three boundaries.     *)
(***************************************************************************)
Window == 61

Hour == 60 * 60
NotSoonHours == 48 * Hour

RemainingSamples ==
    ((0 - Window)..Window) \cup ((Hour - Window)..(Hour + Window))
      \cup ((NotSoonHours - Window)..(NotSoonHours + Window))

InitClassify ==
    /\ combined_cache = EmptyCache
    /\ cache_file = EmptyCache
    /\ CallsAtStart
    /\ MonitorAtStart
    /\ \E now \in ClockSamples :
         \E text \in {[kind |-> "nomatch", dt_end |-> 0], [kind |-> "invalid", dt_end |-> 0]}
                       \cup {[kind |-> "match", dt_end |-> now + r] : r \in RemainingSamples} :
            classified = [phase |-> "input", text |-> text, now |-> now, rs |-> <<>>, state |-> "none"]
    /\ tg_call = NotSent
    /\ pointed = NotPointed
    /\ PropertiesAtStart
    /\ TimeAtStart

\* lines 655-698 for the fetched deadline text
ClassifyDeadline ==
    /\ classified.phase = "input"
    /\ classified' = [classified EXCEPT
                         !.phase = "done",
                         !.rs = remaining_str(classified.text, classified.now),
                         !.state = Classify(remaining_str(classified.text, classified.now))]
    /\ UNCHANGED <<cacheVars, callVars, monitorVars, pointed, tg_call, propertyVars, timeVars>>

NextClassify == ClassifyDeadline

SpecClassify == InitClassify /\ [][NextClassify]_vars

(***************************************************************************)
(* Specification SpecDirection: calculate_direction (both files) on pairs  *)
(* of points, coordinates in 1e-4 degree                                   *)
(***************************************************************************)
Calgary == <<510504, -1140625>>
Edmonton == <<535461, -1134938>>
Points ==
    {Calgary, Edmonton, <<510604, -1141801>>, <<522681, -1138112>>, <<496956, -1128451>>,
     <<500405, -1106764>>, <<551707, -1187947>>, <<567265, -1113803>>, <<511784, -1155708>>,
     <<532784, -1100050>>, <<562340, -1172890>>}

InitDirection ==
    /\ combined_cache = EmptyCache
    /\ cache_file = EmptyCache
    /\ CallsAtStart
    /\ MonitorAtStart
    /\ classified = NotClassified
    /\ tg_call = NotSent
    /\ PropertiesAtStart
    /\ TimeAtStart
    /\ \E origin \in Points, dest \in Points :
         pointed = [NotPointed EXCEPT !.phase = "input", !.origin = origin, !.dest = dest]

\* calculate_direction(origin_lat, origin_lng, dest_lat, dest_lng) of auc2.py and of auction.py
CalculateDirection ==
    /\ pointed.phase = "input"
    /\ pointed' = [pointed EXCEPT
                      !.phase = "done",
                      !.y = BearingY(pointed.origin[1], pointed.origin[2], pointed.dest[1], pointed.dest[2]),
                      !.x = BearingX(pointed.origin[1], pointed.origin[2], pointed.dest[1], pointed.dest[2]),
                      !.bearing = bearing_deg(pointed.origin[1], pointed.origin[2],
                                              pointed.dest[1], pointed.dest[2]),
                      !.short = calculate_direction(pointed.origin[1], pointed.origin[2],
                                                    pointed.dest[1], pointed.dest[2]),
                      !.long = calculate_direction_long(pointed.origin[1], pointed.origin[2],
                                                        pointed.dest[1], pointed.dest[2])]
    /\ UNCHANGED <<cacheVars, callVars, monitorVars, classified, tg_call, propertyVars, timeVars>>

NextDirection == CalculateDirection

SpecDirection == InitDirection /\ [][NextDirection]_vars

(***************************************************************************)
(* Specification SpecSector: the sector step of both calculate_direction   *)
(* versions for the doubles next to each sector boundary.                  *)
(***************************************************************************)
MaxUlps == 4

InitSector ==
    /\ combined_cache = EmptyCache
    /\ cache_file = EmptyCache
    /\ CallsAtStart
    /\ MonitorAtStart
    /\ classified = NotClassified
    /\ tg_call = NotSent
    /\ PropertiesAtStart
    /\ TimeAtStart
    /\ \E k \in 0..7, n \in (0 - MaxUlps)..MaxUlps :
         pointed = [NotPointed EXCEPT !.phase = "input", !.bearing = [edge |-> k, ulps |-> n]]

\* dirs[ix] of auc2.py and the if-chain of auction.py for the bearing
SectorOfBearing ==
    /\ pointed.phase = "input"
    /\ pointed' = [pointed EXCEPT
                      !.phase = "done",
                      !.short = dirs[DirectionIndexOfDouble(pointed.bearing) + 1],
                      !.long = DirectionNameOfDouble(pointed.bearing)]
    /\ UNCHANGED <<cacheVars, callVars, monitorVars, classified, tg_call, propertyVars, timeVars>>

NextSector == SectorOfBearing

SpecSector == InitSector /\ [][NextSector]_vars

(***************************************************************************)
(* Specification SpecSchedule: the loop of run_continuous_monitor          *)
(* (auction.py lines 1011-1079).  The clock is Mountain wall-clock time in *)
(* seconds since midnight of day 0.                                        *)
(***************************************************************************)
MaxDays == 1

Minute == 60
Day == 24 * Hour

\* datetime.time() and datetime.date() (as the midnight that starts the date)
TimeOfDay(t) == t % Day
DateOf(t) == (t \div Day) * Day

\* when the program is started: 00:00:00, 05:59:59, 06:00:00, 22:39:00, 23:19:00,
\* 23:59:00 and 23:59:30
StartTimes ==
    {0, 5 * Hour + 59 * Minute + 59, 6 * Hour, 22 * Hour + 39 * Minute,
     23 * Hour + 19 * Minute, 23 * Hour + 59 * Minute, 23 * Hour + 59 * Minute + 30}

\* random.randint(40, 80), random.randint(0, 60) and the seconds a check takes
CheckMinutes == {40, 80}
MorningMinutes == {0, 60}
CheckSeconds == {0, 90}

\* mutant: the last minute of the day counts as operating time
InOperatingHours_wholeDay(t) == 6 * Hour <= TimeOfDay(t)

\* dt_time(6, 0) <= current_time <= dt_time(23, 59)
InOperatingHours(t) ==
    6 * Hour <= TimeOfDay(t) /\ TimeOfDay(t) <= 23 * Hour + 59 * Minute

\* lines 1035-1047: now + random minutes, or 6 AM tomorrow + 0..60 minutes when that
\* time of day is before 06:00 or after 23:59
next_check_datetime(now_mt, random_minutes, morning_minutes) ==
    IF \/ TimeOfDay(now_mt + random_minutes * Minute) < 6 * Hour
       \/ TimeOfDay(now_mt + random_minutes * Minute) > 23 * Hour + 59 * Minute
    THEN DateOf(now_mt) + Day + 6 * Hour + morning_minutes * Minute
    ELSE now_mt + random_minutes * Minute

\* lines 1059-1067: 6 AM today before 06:00, 6 AM tomorrow otherwise
tomorrow_6am(now_mt) ==
    IF TimeOfDay(now_mt) < 6 * Hour THEN DateOf(now_mt) + 6 * Hour
    ELSE DateOf(now_mt) + Day + 6 * Hour

InitSchedule ==
    /\ combined_cache = EmptyCache
    /\ cache_file = EmptyCache
    /\ CallsAtStart
    /\ MonitorAtStart
    /\ classified = NotClassified
    /\ tg_call = NotSent
    /\ pointed = NotPointed
    /\ PropertiesAtStart
    /\ clock \in StartTimes
    /\ ends_at = [u \in Items |-> 0]
    /\ listed_at = [u \in Items |-> None]
    /\ fetched_at = None
    /\ schedule = NotScheduled

\* the iteration has computed its sleep and sleeps
SleepFor(path, now_mt, next, took) ==
    /\ schedule' = [path |-> path, now_mt |-> now_mt, next_check_datetime |-> next,
                    sleep_seconds |-> next - now_mt, raised |-> "none"]
    /\ clock' = clock + took + (next - now_mt)

\* lines 1029-1054: within operating hours the check runs, then the loop sleeps until
\* the next check time, counted from the time read before the check
RunCheck ==
    /\ schedule.path # "stopped" /\ clock < MaxDays * Day
    /\ InOperatingHours(clock)
    /\ \E random_minutes \in CheckMinutes, morning_minutes \in MorningMinutes, took \in CheckSeconds :
         SleepFor("check", clock, next_check_datetime(clock, random_minutes, morning_minutes), took)
    /\ UNCHANGED <<cacheVars, callVars, monitorVars, pureVars, propertyVars, ends_at, listed_at,
                   fetched_at>>

\* lines 1056-1071: outside operating hours the loop sleeps until 6 AM
SleepUntilOpen ==
    /\ schedule.path # "stopped" /\ clock < MaxDays * Day
    /\ ~InOperatingHours(clock)
    /\ SleepFor("closed", clock, tomorrow_6am(clock), 0)
    /\ UNCHANGED <<cacheVars, callVars, monitorVars, pureVars, propertyVars, ends_at, listed_at,
                   fetched_at>>

\* lines 1073-1079: KeyboardInterrupt breaks out of the loop, any other exception is
\* logged and the loop sleeps one hour before it retries
CycleRaises ==
    /\ schedule.path # "stopped" /\ clock < MaxDays * Day
    /\ \E raised \in {"KeyboardInterrupt", "Exception"} :
         IF raised = "KeyboardInterrupt"
         THEN /\ schedule' = [NotScheduled EXCEPT !.path = "stopped", !.now_mt = clock,
                                                  !.raised = raised]
              /\ clock' = clock
         ELSE /\ schedule' = [NotScheduled EXCEPT !.path = "error", !.now_mt = clock,
                                                  !.sleep_seconds = 3600, !.raised = raised]
              /\ clock' = clock + 3600
    /\ UNCHANGED <<cacheVars, callVars, monitorVars, pureVars, propertyVars, ends_at, listed_at,
                   fetched_at>>

NextSchedule ==
    \/ RunCheck
    \/ SleepUntilOpen
    \/ CycleRaises

SpecSchedule == InitSchedule /\ [][NextSchedule]_vars

(***************************************************************************)
(* ib_tg.py send_telegram_message (lines 48-120) and the specification     *)
(* SpecTelegram: one call for each configuration and each outcome of its   *)
(* sends.                                                                  *)
(***************************************************************************)
\* what the send statement of the try may do: succeed (with create_task: schedule the
\* send), or raise
Sent == [type |-> "none", text |-> EmptyStr]
SendOutcomes ==
    {Sent,
     [type |-> "RuntimeError", text |-> "Event loop is closed"],
     [type |-> "RuntimeError", text |-> "cannot schedule new futures after shutdown"],
     [type |-> "RuntimeError", text |-> "This event loop is already running"],
     [type |-> "Exception", text |-> "Timed out"]}

\* the event loop asyncio.get_event_loop() finds: none (it raises RuntimeError), a
\* closed one, a running one, an idle one
LoopStates == {"none", "closed", "running", "idle"}
NoCurrentLoop == [type |-> "RuntimeError", text |-> "There is no current event loop"]

\* line 97: the text of the RuntimeError reports a shut-down or closed event loop
ReportsClosedLoop(e) ==
    e.text \in {"cannot schedule new futures after shutdown", "Event loop is closed"}

\* one bot.send_message(...) handed to the event loop
SendAttempt(via, chat_id, outcome) == [via |-> via, chat_id |-> chat_id, outcome |-> outcome]

\* target_channel_id = channel_id if channel_id is not None else MY_CHANNEL_ID
target_channel_id(channel_id, MY_CHANNEL_ID) ==
    IF channel_id # NoneStr THEN channel_id ELSE MY_CHANNEL_ID

\* mutant: the retry is not guarded, its exception leaves the function
RetryAfterClosedLoop_unguarded(first, chat_id, retry) ==
    [attempts |-> <<first, SendAttempt("asyncio.run", chat_id, retry)>>,
     log |-> IF retry = Sent THEN <<"warning", "info">> ELSE <<"warning">>,
     raised |-> retry # Sent]

\* lines 97-109: the message is sent again with asyncio.run; a failure is logged
RetryAfterClosedLoop(first, chat_id, retry) ==
    [attempts |-> <<first, SendAttempt("asyncio.run", chat_id, retry)>>,
     log |-> IF retry = Sent THEN <<"warning", "info">> ELSE <<"warning", "error">>,
     raised |-> FALSE]

\* lines 78-120: the send and the two except clauses
TrySend(via, chat_id, first, retry) ==
    IF first = Sent
    THEN [attempts |-> <<SendAttempt(via, chat_id, first)>>, log |-> <<"info">>, raised |-> FALSE]
    ELSE IF first.type = "RuntimeError" /\ ReportsClosedLoop(first)
    THEN RetryAfterClosedLoop(SendAttempt(via, chat_id, first), chat_id, retry)
    ELSE [attempts |-> <<SendAttempt(via, chat_id, first)>>, log |-> <<"error">>, raised |-> FALSE]

\* send_telegram_message(message, parse_mode, channel_id, caller_logger): the sends
\* attempted, the levels logged and whether an exception left the function
send_telegram_message(bot, MY_CHANNEL_ID, channel_id, loop, first, retry) ==
    IF bot = NoneStr
    THEN [attempts |-> <<>>, log |-> <<"error">>, raised |-> FALSE]
    ELSE IF target_channel_id(channel_id, MY_CHANNEL_ID) \in {NoneStr, EmptyStr}
    THEN [attempts |-> <<>>, log |-> <<"error">>, raised |-> FALSE]
    ELSE IF loop = "none"
    THEN [attempts |-> <<>>, log |-> <<"error">>, raised |-> FALSE]
    ELSE TrySend(IF loop = "running" THEN "create_task" ELSE "run_until_complete",
                 target_channel_id(channel_id, MY_CHANNEL_ID), first, retry)

InitTelegram ==
    /\ combined_cache = EmptyCache
    /\ cache_file = EmptyCache
    /\ CallsAtStart
    /\ MonitorAtStart
    /\ classified = NotClassified
    /\ pointed = NotPointed
    /\ PropertiesAtStart
    /\ TimeAtStart
    /\ \E bot \in {NoneStr, "Bot"}, my_channel_id \in {NoneStr, EmptyStr, "@house"},
          channel_id \in {NoneStr, EmptyStr, "@other"}, loop \in LoopStates :
         tg_call = [NotSent EXCEPT !.phase = "called", !.bot = bot, !.MY_CHANNEL_ID = my_channel_id,
                                   !.channel_id = channel_id, !.loop = loop]

\* the call runs to its end
CallEnds(c, r) ==
    tg_call' = [c EXCEPT !.phase = "done", !.attempts = r.attempts, !.log = r.log,
                         !.raised = r.raised]

SendTelegramMessage ==
    /\ tg_call.phase = "called"
    /\ \E first \in SendOutcomes, retry \in SendOutcomes :
         CallEnds(tg_call, send_telegram_message(tg_call.bot, tg_call.MY_CHANNEL_ID,
                                                 tg_call.channel_id, tg_call.loop, first, retry))
    /\ UNCHANGED <<cacheVars, callVars, monitorVars, classified, pointed, propertyVars, timeVars>>

NextTelegram == SendTelegramMessage

SpecTelegram == InitTelegram /\ [][NextTelegram]_vars

(***************************************************************************)
(* Specification SpecProperties: check_for_new_properties of auction.py,   *)
(* category after category, check after check                              *)
(***************************************************************************)
InitProperties ==
    /\ combined_cache = EmptyCache
    /\ cache_file = EmptyCache
    /\ CallsAtStart
    /\ MonitorAtStart
    /\ classified = NotClassified
    /\ tg_call = NotSent
    /\ pointed = NotPointed
    /\ EXCEL_FILE \in {NoPropertyFile, UncategorisedFile, CategorisedFile}
    /\ url_idx = 1
    /\ telegram = [k \in MlsNumbers \X {url_categories[i] : i \in 1..Len(url_categories)} |-> 0]
    /\ checked = NotChecked
    /\ saves_left = MaxSaves
    /\ TimeAtStart

\* lines 953-962: one notification per new property
Notified(new_properties, property_category) ==
    [k \in DOMAIN telegram |->
        telegram[k] + Cardinality({i \in 1..Len(new_properties) :
                                     <<new_properties[i][ColMls], property_category>> = k})]

\* lines 974-981: the new properties are saved
SaveStep(property_category, loaded, new_properties, s) ==
    /\ (new_properties # <<>> => saves_left > 0)
    /\ EXCEL_FILE' = s.file
    /\ telegram' = Notified(new_properties, property_category)
    /\ checked' = [path |-> "checked", category |-> property_category,
                   existing_df |-> loaded.df, most_recent_mls |-> loaded.most_recent_mls,
                   new_properties |-> new_properties, saved |-> s.saved]
    /\ saves_left' = IF new_properties # <<>> THEN saves_left - 1 ELSE saves_left

\* lines 932-981: the listings are walked and the new ones saved
WalkStep(property_category, loaded, new_properties) ==
    SaveStep(property_category, loaded, new_properties,
             save_properties_to_excel(new_properties, loaded.df, property_category, EXCEL_FILE))

\* lines 901-966: the table is loaded, the pages are fetched
LoadStep(property_category, loaded, property_sections, price) ==
    WalkStep(property_category, loaded,
             NewProperties(property_sections, loaded.most_recent_mls, price))

\* lines 895-983: one iteration of for url_config in url_categories
CheckCategory ==
    /\ url_idx <= Len(url_categories)
    /\ \E property_sections \in PropertySections, price \in Prices :
         LoadStep(url_categories[url_idx],
                  load_existing_properties(EXCEL_FILE, url_categories[url_idx]),
                  property_sections, price)
    /\ url_idx' = url_idx + 1
    /\ UNCHANGED <<cacheVars, callVars, monitorVars, pureVars, timeVars>>

\* lines 985-987: a page request raises; the category is skipped
FetchFails ==
    /\ url_idx <= Len(url_categories)
    /\ checked' = [NotChecked EXCEPT !.path = "fetch_error", !.category = url_categories[url_idx]]
    /\ url_idx' = url_idx + 1
    /\ UNCHANGED <<cacheVars, callVars, monitorVars, pureVars, EXCEL_FILE, telegram, saves_left, timeVars>>

\* lines 989-990 and 1026-1048: the check returns; the monitor sleeps and checks again
CheckCompleted ==
    /\ url_idx > Len(url_categories)
    /\ url_idx' = 1
    /\ checked' = [NotChecked EXCEPT !.path = "completed"]
    /\ UNCHANGED <<cacheVars, callVars, monitorVars, pureVars, EXCEL_FILE, telegram, saves_left, timeVars>>

NextProperties ==
    \/ CheckCategory
    \/ FetchFails
    \/ CheckCompleted

SpecProperties == InitProperties /\ [][NextProperties]_vars

(***************************************************************************)
(* Specification SpecDeadline: run_auction_monitor with a clock. Every     *)
(* page fetch succeeds, no item is concluded, every detail page states the *)
(* item's deadline; the clock advances by the sleeps of the loop.          *)
(***************************************************************************)
\* the dt_end of the items, in seconds after the start: 30 minutes and 48 h 30 min
DeadlineSamples == {30 * 60, 48 * 3600 + 30 * 60}

\* mins = random.randint(40, 80) (line 679)
SleepMinutes == {40, 60, 80}

\* time.sleep(random.uniform(5, 10)) (line 736), in whole seconds
PassSeconds == {5, 10}

\* what the requests of one pass may answer: as in PassGeocodeAnswers and
\* PassOsrmAnswers, or every geocoding request fails, or the routing request fails
TimedGeocodeAnswers == PassGeocodeAnswers \cup {[exact |-> <<>>, simplified |-> <<>>, google |-> <<>>]}
TimedOsrmAnswers == PassOsrmAnswers \cup {<<>>}

\* get_item_details_full(item["item_url"]) of a live item
DetailOf(item_url) ==
    [concluded |-> FALSE,
     bidding_ends_at |-> [kind |-> "match", dt_end |-> ends_at[item_url]],
     current_bid |-> "$5"]

InitDeadline ==
    /\ combined_cache = EmptyCache
    /\ cache_file = EmptyCache
    /\ CallsAtStart
    /\ MonitorAtStart
    /\ classified = NotClassified
    /\ tg_call = NotSent
    /\ pointed = NotPointed
    /\ PropertiesAtStart
    /\ clock = 0
    /\ ends_at \in [Items -> DeadlineSamples]
    /\ listed_at = [u \in Items |-> None]
    /\ fetched_at = None
    /\ schedule = NotScheduled

\* lines 581-588: the items of the next auction are listed
ListAuction ==
    /\ pc = "auction"
    /\ auction_idx <= Len(FirstThree(auction_infos))
    /\ \E page \in AuctionPages[auction_infos[auction_idx]] :
         /\ items' = page
         /\ listed_at' = [u \in Items |->
                            IF listed_at[u] = None /\ \E i \in 1..Len(page) : page[i] = u
                            THEN clock ELSE listed_at[u]]
    /\ idx' = 1
    /\ pc' = "item"
    /\ UNCHANGED <<cacheVars, callVars, pureVars, propertyVars, tableVars, auction_infos,
                   auction_idx, logVars, clock, ends_at, fetched_at, schedule>>

\* lines 620-683 at the clock: 48 hours or more are left, the loop sleeps 40 to 80
\* minutes and re-checks the same item
SleepOnItem ==
    /\ pc = "item" /\ idx <= Len(items) /\ passes_left > 0
    /\ IsNotSoon(remaining_str(DetailOf(items[idx]).bidding_ends_at, clock))
    /\ \E geo \in TimedGeocodeAnswers, osrm \in TimedOsrmAnswers :
         NotSoonStep(items[idx], Enrich(items[idx], DetailOf(items[idx]), combined_cache, geo, osrm))
    /\ fetched_at' = clock
    /\ \E mins \in SleepMinutes : clock' = clock + mins * 60
    /\ passes_left' = passes_left - 1
    /\ UNCHANGED <<callVars, pureVars, propertyVars, loopVars, sent, ends_at, listed_at, schedule>>

\* lines 620-737 at the clock: the alert is decided and sent, the row upserted, the
\* loop sleeps 5 to 10 seconds and advances
ProcessItem ==
    /\ pc = "item" /\ idx <= Len(items) /\ passes_left > 0
    /\ ~IsNotSoon(remaining_str(DetailOf(items[idx]).bidding_ends_at, clock))
    /\ \E geo \in TimedGeocodeAnswers, osrm \in TimedOsrmAnswers, delivered \in BOOLEAN :
         NormalStep(items[idx], Enrich(items[idx], DetailOf(items[idx]), combined_cache, geo, osrm),
                    remaining_str(DetailOf(items[idx]).bidding_ends_at, clock), delivered)
    /\ fetched_at' = clock
    /\ \E secs \in PassSeconds : clock' = clock + secs
    /\ idx' = idx + 1
    /\ passes_left' = passes_left - 1
    /\ UNCHANGED <<callVars, pureVars, propertyVars, excel_file, pc, auction_infos, auction_idx,
                   items, ends_at, listed_at, schedule>>

NextDeadline ==
    \/ StartCycle
    \/ ListAuction
    \/ SleepOnItem
    \/ ProcessItem
    \/ ItemsDone
    \/ EndCycle

\* the loop never stops by itself: a step that can be taken is taken
SpecDeadline == InitDeadline /\ [][NextDeadline]_vars /\ WF_vars(NextDeadline)

(***************************************************************************)
(* Specification SpecPacing: the timed loop when a detail page may also    *)
(* say 'Bidding Has Concluded'.  Only time.sleep advances the clock: the   *)
(* requests and the work between them take no time.                        *)
(***************************************************************************)
\* get_item_details_full of an item whose page says 'Bidding Has Concluded'
ConcludedDetailOf(item_url) == [DetailOf(item_url) EXCEPT !.concluded = TRUE]

\* lines 592-619 at the clock: the row is upserted, 'idx += 1; continue' goes to the
\* next item without a sleep
ConcludedItem ==
    /\ pc = "item" /\ idx <= Len(items) /\ passes_left > 0
    /\ \E geo \in TimedGeocodeAnswers, osrm \in TimedOsrmAnswers :
         ConcludedStep(items[idx],
                       Enrich(items[idx], ConcludedDetailOf(items[idx]), combined_cache, geo, osrm))
    /\ fetched_at' = clock
    /\ idx' = idx + 1
    /\ passes_left' = passes_left - 1
    /\ UNCHANGED <<cache_file, callVars, pureVars, propertyVars, excel_file, pc, auction_infos,
                   auction_idx, items, sent, clock, ends_at, listed_at, schedule>>

NextPacing ==
    \/ StartCycle
    \/ ListAuction
    \/ SleepOnItem
    \/ ProcessItem
    \/ ConcludedItem
    \/ ItemsDone
    \/ EndCycle

SpecPacing == InitDeadline /\ [][NextPacing]_vars

(***************************************************************************)
(* Specification SpecCycle: the timed loop over listings of up to four     *)
(* auctions, and over an empty listing.                                    *)
(***************************************************************************)
\* lines 567-571 at the clock: the listing has no Alberta auction; the loop sleeps
\* 600 s and fetches the listing again (a poll counts against the budget of passes)
EmptyListing ==
    /\ pc = "listing" /\ passes_left > 0
    /\ <<>> \in LongListings
    /\ last' = [NoPass EXCEPT !.path = "no_auctions"]
    /\ clock' = clock + 600
    /\ passes_left' = passes_left - 1
    /\ UNCHANGED <<cacheVars, callVars, pureVars, propertyVars, tableVars, loopVars, sent,
                   ends_at, listed_at, fetched_at, schedule>>

\* lines 567-580 for a listing of up to four auctions
StartLongCycle ==
    /\ pc = "listing"
    /\ CycleStarts(LongListings)

NextCycle ==
    \/ EmptyListing
    \/ StartLongCycle
    \/ ListAuction
    \/ SleepOnItem
    \/ ProcessItem
    \/ ConcludedItem
    \/ ItemsDone
    \/ EndCycle

SpecCycle == InitDeadline /\ [][NextCycle]_vars

(***************************************************************************)
(* Specification SpecCache: any sequence of geocode_address and            *)
(* calculate_driving_time_osrm calls on one cache, with cache saves and    *)
(* reloads (a new cycle of run_auction_monitor reloads the cache file).    *)
(***************************************************************************)
MaxCalls == 3

Addr5FirstSt == <<"5"," ","1","s","t"," ","S","t">>
AddrTba == <<"t","b","a">>
AddrTbaElm == <<" ","T","b","a",","," ","9"," ","E","l","m">>
AddrNaLotTba == <<"N","/","A",","," ","l","o","t"," ","t","b","a">>
Addresses == {Addr5FirstSt, AddrTba, AddrTbaElm, AddrNaLotTba}

PointA == <<535461, -1134938>>
PointB == <<496956, -1128451>>

\* what the three geocoding requests of one call may answer
GeocodeAnswers ==
    [exact : {<<>>, PointA}, simplified : {<<>>, PointB}, google : {<<>>, PointA}]

\* what the routing request of one call may answer: failure or (seconds, metres)
OsrmAnswers == {<<>>, <<7260, 181500>>}

\* spellings of the reference-point part of a route cache key
KeyCalgary == <<"C","a","l","g","a","r","y">>
CitySpellings == {KeyCalgary, <<"c","a","l","g","a","r","y">>, <<" ","C","A","L","G","A","R","Y">>}

NoCall == [fn |-> "none", key |-> <<>>, city |-> <<>>, before |-> <<>>, prior |-> <<>>,
           answers |-> <<>>, ret |-> <<>>, calls |-> <<>>]

CachedGeocode(cache, key) == IF key \in DOMAIN cache THEN cache[key].geocode ELSE <<>>
CachedRoute(cache, key, city) ==
    IF key \in DOMAIN cache /\ city \in DOMAIN cache[key].route THEN cache[key].route[city] ELSE <<>>

InitCache ==
    /\ combined_cache = EmptyCache
    /\ cache_file = EmptyCache
    /\ call = NoCall
    /\ resolved = [a \in Addresses |-> <<>>]
    /\ calls_left = MaxCalls
    /\ MonitorAtStart
    /\ classified = NotClassified
    /\ tg_call = NotSent
    /\ pointed = NotPointed
    /\ PropertiesAtStart
    /\ TimeAtStart

\* lat, lng = geocode_address(address, geocode_cache)
GeocodeCall ==
    /\ calls_left > 0
    /\ \E address \in Addresses, prov \in GeocodeAnswers :
         LET r == geocode_address(address, combined_cache, prov)
         IN  /\ combined_cache' = r.cache
             /\ call' = [fn |-> "geocode", key |-> address, city |-> <<>>,
                         before |-> CachedGeocode(combined_cache, address),
                         prior |-> resolved[address],
                         answers |-> <<prov.exact, prov.simplified, prov.google>>,
                         ret |-> r.ret, calls |-> r.calls]
             /\ resolved' = IF r.ret # GeocodeSentinel /\ resolved[address] = <<>>
                            THEN [resolved EXCEPT ![address] = r.ret] ELSE resolved
    /\ calls_left' = calls_left - 1
    /\ UNCHANGED <<cache_file, monitorVars, pureVars, propertyVars, timeVars>>

\* calculate_driving_time_osrm(ref lat, ref lng, lat, lng, route_cache, f"{address}|{city}"),
\* called as run_auction_monitor does, with the coordinates geocode_address gave
RouteCall ==
    /\ calls_left > 0
    /\ \E address \in Addresses, spelling \in CitySpellings, osrm \in OsrmAnswers :
         /\ GeocodeCacheHit(combined_cache, address)
         /\ LET dest == combined_cache[address].geocode
                r == calculate_driving_time_osrm(REFS.calgary.lat, REFS.calgary.lng, dest[1], dest[2],
                                                 combined_cache, address \o <<"|">> \o spelling, osrm)
            IN  /\ combined_cache' = r.cache
                /\ call' = [fn |-> "route", key |-> address, city |-> spelling,
                            before |-> CachedRoute(combined_cache, address, KeyCalgary),
                            prior |-> <<>>, answers |-> <<osrm>>,
                            ret |-> r.ret, calls |-> r.calls]
    /\ calls_left' = calls_left - 1
    /\ UNCHANGED <<cache_file, resolved, monitorVars, pureVars, propertyVars, timeVars>>

\* save_combined_cache(COMBINED_CACHE_FILE, combined_cache)
SaveCache ==
    /\ cache_file # combined_cache
    /\ cache_file' = combined_cache
    /\ UNCHANGED <<combined_cache, call, resolved, calls_left, monitorVars, pureVars, propertyVars, timeVars>>

\* combined_cache = load_combined_cache(COMBINED_CACHE_FILE): a new cache object
LoadCache ==
    /\ call.fn # "none"
    /\ combined_cache' = cache_file
    /\ call' = NoCall
    /\ resolved' = [a \in Addresses |-> <<>>]
    /\ UNCHANGED <<cache_file, calls_left, monitorVars, pureVars, propertyVars, timeVars>>

NextCache == GeocodeCall \/ RouteCall \/ SaveCache \/ LoadCache

SpecCache == InitCache /\ [][NextCache]_vars

(***************************************************************************)
(* Specification SpecProvider: one call of geocode_address or              *)
(* calculate_driving_time_osrm on a cache left by an earlier call, for     *)
(* every outcome of each provider request: a network error, a timeout, an  *)
(* error status, a malformed body, an empty result or a usable answer.     *)
(***************************************************************************)
\* the ways a request can fail: requests.get raises (connection error, timeout),
\* raise_for_status raises, resp.json() or the indexing of the body raises, or the
\* body holds no result
Failures == {"network error", "timeout", "error status", "malformed", "empty"}

\* mutant: without raise_for_status the body of an error status is read as a result
Attempt_statusIgnored(outcome) ==
    IF outcome = "error status" THEN PointB
    ELSE IF outcome \in Failures THEN <<>> ELSE outcome

\* lines 79-90, 98-110, 113-126, 147-162: 'try: ... except Exception: pass' around a
\* request and the reading of its body; every failure leaves the step without a result
Attempt(outcome) == IF outcome \in Failures THEN <<>> ELSE outcome

ProviderAddresses == {Addr5FirstSt, AddrTbaElm, AddrTba, NoneAddress}

\* what each geocoding request and the routing request of the call may come to
GeocodeOutcomes ==
    [exact : Failures \cup {PointA}, simplified : Failures \cup {PointB}, google : Failures \cup {PointA}]
OsrmOutcomes == Failures \cup {<<7260, 181500>>}

\* the caches one earlier geocode_address call leaves behind, and those a routing
\* call for a resolved address adds to them
GeocodedOnce ==
    {geocode_address(a, EmptyCache, p).cache : a \in ProviderAddresses, p \in GeocodeAnswers}
RoutedOnce ==
    UNION {{calculate_driving_time_osrm(REFS.calgary.lat, REFS.calgary.lng,
                                        c[a].geocode[1], c[a].geocode[2],
                                        c, a \o <<"|">> \o KeyCalgary, o).cache : o \in OsrmAnswers}
           : <<c, a>> \in {x \in GeocodedOnce \X ProviderAddresses : GeocodeCacheHit(x[1], x[2])}}
PreparedCaches == {EmptyCache} \cup GeocodedOnce \cup RoutedOnce

InitProvider ==
    /\ combined_cache \in PreparedCaches
    /\ cache_file = combined_cache
    /\ call = NoCall
    /\ resolved = [a \in Addresses |-> <<>>]
    /\ calls_left = 0
    /\ MonitorAtStart
    /\ classified = NotClassified
    /\ tg_call = NotSent
    /\ pointed = NotPointed
    /\ PropertiesAtStart
    /\ TimeAtStart

\* lat, lng = geocode_address(address, geocode_cache), each request ending in any way
GeocodeAttempt ==
    /\ call.fn = "none"
    /\ \E address \in ProviderAddresses, out \in GeocodeOutcomes :
         LET r == geocode_address(address, combined_cache,
                                  [exact |-> Attempt(out.exact),
                                   simplified |-> Attempt(out.simplified),
                                   google |-> Attempt(out.google)])
         IN  /\ combined_cache' = r.cache
             /\ call' = [fn |-> "geocode", key |-> address, city |-> <<>>,
                         before |-> CachedGeocode(combined_cache, OrEmpty(address)),
                         prior |-> <<>>,
                         answers |-> <<out.exact, out.simplified, out.google>>,
                         ret |-> r.ret, calls |-> r.calls]
    /\ UNCHANGED <<cache_file, resolved, calls_left, monitorVars, pureVars, propertyVars, timeVars>>

\* calculate_driving_time_osrm for a resolved address, the request ending in any way
RouteAttempt ==
    /\ call.fn = "none"
    /\ \E address \in ProviderAddresses, spelling \in CitySpellings, out \in OsrmOutcomes :
         /\ GeocodeCacheHit(combined_cache, address)
         /\ LET dest == combined_cache[address].geocode
                r == calculate_driving_time_osrm(REFS.calgary.lat, REFS.calgary.lng, dest[1], dest[2],
                                                 combined_cache, address \o <<"|">> \o spelling,
                                                 Attempt(out))
            IN  /\ combined_cache' = r.cache
                /\ call' = [fn |-> "route", key |-> address, city |-> spelling,
                            before |-> CachedRoute(combined_cache, address, KeyCalgary),
                            prior |-> <<>>, answers |-> <<out>>,
                            ret |-> r.ret, calls |-> r.calls]
    /\ UNCHANGED <<cache_file, resolved, calls_left, monitorVars, pureVars, propertyVars, timeVars>>

NextProvider == GeocodeAttempt \/ RouteAttempt

SpecProvider == InitProvider /\ [][NextProvider]_vars

(***************************************************************************)
(* Claims about the location cache (SpecCache)                             *)
(***************************************************************************)
IsGeocodeCall == call.fn = "geocode"
IsRouteCall == call.fn = "route"

\* C3: once geocode_address has returned a non-null pair for an address, every later
\* call with the same address on the same cache returns that pair and makes no
\* provider request.
C3_CacheHitReturnsSamePair ==
    (IsGeocodeCall /\ call.prior # <<>>) => (call.ret = call.prior /\ call.calls = <<>>)

\* a later call whose provider would have answered a different pair than the cached one
C3_Witness ==
    /\ IsGeocodeCall /\ call.prior # <<>>
    /\ call.answers[1] # <<>> /\ call.answers[1] # call.prior
    /\ call.ret = call.prior

HasPlaceholderPrefix(a) ==
    \E i \in 1..Len(ambiguous_words) : StartsWith(Lower(Strip(a)), ambiguous_words[i])

C5_PlaceholderPrefixNeverQueried ==
    (IsGeocodeCall /\ HasPlaceholderPrefix(call.key))
        => (call.calls = <<>> /\ call.ret = GeocodeSentinel)

\* what follows the placeholder phrase, without the commas and spaces after it
RemainderAfter(a, i) == LStrip(Drop(Strip(a), Len(ambiguous_words[i])), {",", " "})
MentionsPlaceholder(s) == \E j \in 1..Len(ambiguous_words) : Contains(Lower(s), ambiguous_words[j])

\* C5 amended: an address that begins with a placeholder phrase gets the sentinel
\* without a provider request when what follows the phrase (after commas and
\* spaces) is empty or contains a placeholder phrase; any other remainder
\* is itself sent to the providers.
C5_PlaceholderRemainderDecides ==
    IsGeocodeCall =>
        \A i \in 1..Len(ambiguous_words) :
            StartsWith(Lower(Strip(call.key)), ambiguous_words[i]) =>
                LET rest == RemainderAfter(call.key, i)
                IN  IF rest = <<>> \/ MentionsPlaceholder(rest)
                    THEN call.calls = <<>> /\ call.ret = GeocodeSentinel
                    ELSE call.calls = <<>> \/ call.calls[1] = <<"nominatim", rest>>

\* a call on "N/A, lot tba": the phrase is cut off and the rest still names one
C5_Witness ==
    /\ IsGeocodeCall /\ call.key = AddrNaLotTba
    /\ call.calls = <<>> /\ call.ret = GeocodeSentinel

(***************************************************************************)
(* Claims about run_auction_monitor (Spec) and its classification          *)
(* (SpecClassify)                                                          *)
(***************************************************************************)
\* the cell of column c in the row of item u is true
FlagIsTrue(frame, u, c) ==
    /\ c \in frame.cols
    /\ \E i \in 1..Len(frame.rows) : frame.rows[i][ColItemUrl] = u /\ frame.rows[i][c] = True

\* C1: across any sequence of passes, a stored alert flag ('reported within 12 hours',
\* 'reported within 1 hour') of an item's row never changes from true to a false or
\* empty value.
C1_FlagsNeverReset ==
    [][\A u \in Items : \A c \in {Col12, Col1} : FlagIsTrue(df, u, c) => FlagIsTrue(df', u, c)]_vars

\* C2: each alert tier is dispatched at most once per item, so at most two
\* notifications are ever sent for one item_url.
C2_EachTierAtMostOnce ==
    \A u \in Items : sent[u].tier1 <= 1 /\ sent[u].tier2 <= 1

UniqueKeys(frame) ==
    \A i, j \in 1..Len(frame.rows) :
        frame.rows[i][ColItemUrl] = frame.rows[j][ColItemUrl] => i = j

\* fully resolved records: every field present, with and without a tier-1 flag
SampleRows ==
    LET base(u, bid) ==
            (ColItemUrl :> u) @@ (ColBid :> bid)
              @@ (ColLat :> IF u = "u1" THEN 535461 ELSE None)
              @@ (ColLng :> IF u = "u1" THEN -1134938 ELSE None)
              @@ [c \in {RouteCols.calgary[i] : i \in 1..3} \cup {RouteCols.edmonton[i] : i \in 1..3}
                    |-> IF c \in NumberCols THEN None ELSE NoneStr]
    IN  {base(u, bid) : u \in Items, bid \in {EmptyStr, "$5"}}
          \cup {SetKey(base(u, bid), Col12, True) : u \in Items, bid \in {EmptyStr, "$5"}}

\* C6: the classification run_auction_monitor uses equals the reference: r <= 0 Ended,
\* 0 < r < 1h Imminent, 1h <= r < 48h DueSoon, r >= 48h NotSoon, and a text that does
\* not give a timestamp is Unparseable.
ReferenceState(text, now) ==
    LET r == text.dt_end - now
    IN  IF text.kind # "match" THEN "Unparseable"
        ELSE IF r <= 0 THEN "Ended"
        ELSE IF r < Hour THEN "Imminent"
        ELSE IF r < NotSoonHours THEN "DueSoon"
        ELSE "NotSoon"

C7_UpsertIdempotentUniqueKeys ==
    /\ UniqueKeys(df)
    /\ item_url_set = ItemUrlSet(df)
    /\ \A row \in SampleRows :
         LET once == UpsertRow(df, item_url_set, row)
             conc == UpsertConcluded(df, item_url_set, row)
         IN  /\ UpsertRow(once.frame, once.url_set, row) = once
             /\ UpsertConcluded(conc.frame, conc.url_set, row) = conc
             /\ UniqueKeys(once.frame) /\ UniqueKeys(conc.frame)

\* an item already in the table was upserted again
C7_Witness ==
    /\ last.path \in {"normal", "concluded"}
    /\ last.existed
    /\ Len(df.rows) = 2

(***************************************************************************)
(* Claims about check_for_new_properties and save_properties_to_excel      *)
(***************************************************************************)
\* the MLS numbers stored in the table for a category
StoredMls(frame, property_category) ==
    IF ColMls \in frame.cols /\ ColCategory \in frame.cols
    THEN {frame.rows[i][ColMls] : i \in {k \in 1..Len(frame.rows) :
                                            frame.rows[k][ColCategory] = property_category}}
    ELSE {}

\* no two rows of the table have the same MLS number and category
NoRepeatedListing(frame) ==
    ColCategory \in frame.cols =>
        \A i, j \in 1..Len(frame.rows) :
            (/\ i < j
             /\ frame.rows[i][ColCategory] \in {url_categories[k] : k \in 1..Len(url_categories)}
             /\ frame.rows[i][ColCategory] = frame.rows[j][ColCategory])
                => frame.rows[i][ColMls] # frame.rows[j][ColMls]

\* C8: a listing whose MLS number is already stored in the table for its category is
\* not appended and not notified again by a check, and the table never holds two rows
\* with the same MLS number and category.
C8_StoredListingNotRepeated ==
    /\ NoRepeatedListing(ReadProperties(EXCEL_FILE))
    /\ checked.path = "checked" =>
         \A i \in 1..Len(checked.new_properties) :
             checked.new_properties[i][ColMls]
                 \notin StoredMls(checked.existing_df, checked.category)

\* the category a row is tagged with (NaN when the table has no category column)
TagOf(frame, r) == IF ColCategory \in frame.cols THEN r[ColCategory] ELSE NaN

\* the rows of a table carrying a tag, in table order, seen over the given columns
RowsTagged(frame, tag, cols) ==
    LET Tagged(r) == TagOf(frame, r) = tag
        rows == SelectSeq(frame.rows, Tagged)
    IN  [i \in 1..Len(rows) |-> [c \in cols |-> rows[i][c]]]

CategoryTags == {url_categories[k] : k \in 1..Len(url_categories)} \cup {NaN}

\* C9: after save_properties_to_excel has written the table for category X, the rows
\* of every other category (and the rows without a category) are the rows the table
\* held before, in number, order and in every field value.
C9_OtherCategoriesKept ==
    (checked.path = "checked" /\ checked.saved) =>
        \A tag \in CategoryTags \ {checked.category} :
            RowsTagged(ReadProperties(EXCEL_FILE), tag, checked.existing_df.cols \ {ColCategory})
                = RowsTagged(checked.existing_df, tag, checked.existing_df.cols \ {ColCategory})

\* a save for one category onto a table that holds rows of another category
C9_Witness ==
    /\ checked.path = "checked" /\ checked.saved
    /\ \E tag \in CategoryTags \ {checked.category, NaN} :
          /\ RowsTagged(checked.existing_df, tag, {ColMls}) # <<>>
          /\ RowsTagged(ReadProperties(EXCEL_FILE), tag, {ColMls}) # <<>>
    /\ StoredMls(checked.existing_df, checked.category) # {}

(***************************************************************************)
(* Claims about calculate_direction                                        *)
(***************************************************************************)
LongNames == <<"North", "Northeast", "East", "Southeast", "South", "Southwest", "West", "Northwest">>

\* the 45-degree sector centred on the i-th compass point contains the bearing
\* (bearing in 1e-2 degree)
SectorContains(i, bearing) == (bearing - 4500 * (i - 1) + 2250) % 36000 < 4500

\* tan(22.5 degrees) = 0.41421: the bearing atan2(y, x) lies within 22.5 degrees of north
WithinNorthSector(y, x) == x > 0 /\ Abs(y) * 100000 < 41421 * x

\* C10 (as the spec states it): from (51.0504, -114.0625) to (53.5461, -113.4938)
\* calculate_direction returns the northeasterly label, NE or Northeast.
C10_CalgaryToEdmontonIsNortheast ==
    (pointed.phase = "done" /\ pointed.origin = Calgary /\ pointed.dest = Edmonton) =>
        pointed.short = "NE" /\ pointed.long = "Northeast"

\* C10 (amended): from (51.0504, -114.0625) to (53.5461, -113.4938) calculate_direction
\* returns the northerly label, N in auc2.py and North in auction.py; for every pair of
\* points the two labels name the same sector and that sector contains the
\* great-circle initial bearing.
C10_CalgaryToEdmontonIsNorth ==
    pointed.phase = "done" =>
        /\ \E i \in 1..8 : /\ pointed.short = dirs[i]
                           /\ pointed.long = LongNames[i]
                           /\ SectorContains(i, pointed.bearing)
        /\ (pointed.origin = Calgary /\ pointed.dest = Edmonton) =>
              /\ pointed.short = "N"
              /\ pointed.long = "North"
              /\ WithinNorthSector(pointed.y, pointed.x)

C10_Witness ==
    /\ pointed.phase = "done" /\ pointed.origin = Calgary /\ pointed.dest = Edmonton
    /\ pointed.short = "N" /\ pointed.long = "North"
    /\ pointed.bearing > 0 /\ pointed.bearing < 2250

(***************************************************************************)
(* Claims about the alert tiers of run_auction_monitor                     *)
(***************************************************************************)
\* this step is a pass of the non-concluded item u that classified it in one of the states
PassOf(u, states) ==
    /\ passes_left' = passes_left - 1
    /\ last'.item = u /\ last'.path = "normal" /\ last'.state \in states

\* the number of notifications this step dispatched for u
Dispatched(u) == (sent'[u].tier1 + sent'[u].tier2) - (sent[u].tier1 + sent[u].tier2)

\* C11: on a pass where a non-concluded item is DueSoon or Imminent and its stored
\* tier-1 flag is false, exactly one notification is dispatched for it and its row
\* in the table has the tier-1 flag true at the end of the pass.
C11_Tier1FiresAndIsStored ==
    [][\A u \in Items :
          (PassOf(u, {"DueSoon", "Imminent"}) /\ ~FlagIsTrue(df, u, Col12))
              => (Dispatched(u) = 1 /\ FlagIsTrue(df', u, Col12))]_vars

\* C12: on a pass where a non-concluded item is Imminent, its stored tier-1 flag is
\* true and its stored tier-2 flag is false, a second notification is dispatched and
\* its row has the tier-2 flag true at the end of the pass.
C12_Tier2FiresAndIsStored ==
    [][\A u \in Items :
          (PassOf(u, {"Imminent"}) /\ FlagIsTrue(df, u, Col12) /\ ~FlagIsTrue(df, u, Col1))
              => (Dispatched(u) = 1 /\ FlagIsTrue(df', u, Col1))]_vars

\* the cell of a flag column in the row of u; NaN when the row or the column is absent
FlagCell(frame, u, c) ==
    IF c \in frame.cols /\ \E i \in 1..Len(frame.rows) : frame.rows[i][ColItemUrl] = u
    THEN frame.rows[CHOOSE i \in 1..Len(frame.rows) : frame.rows[i][ColItemUrl] = u][c]
    ELSE NaN

TierFlag(tier) == IF tier = 2 THEN Col1 ELSE Col12

\* C14: when a notification has been dispatched for an item, the location cache and
\* the table row that records the item, with the alert flag set for this notification,
\* are in their files (they were flushed before the send).
C14_RecordFlushedBeforeSend ==
    (last.path = "normal" /\ last.notified)
        => /\ cache_file = combined_cache
           /\ FlagIsTrue(ReadExcel(excel_file), last.item, TierFlag(last.tier))

(***************************************************************************)
(* Claims about the timing of the monitor loop                             *)
(***************************************************************************)
\* C15: every non-concluded item of a processed auction whose deadline is parseable
\* and still in the future when the item is first listed has had a tier-1
\* notification sent by the time its deadline passes.
C15_NotifiedBeforeDeadline ==
    \A u \in Items :
        (listed_at[u] # None /\ listed_at[u] < ends_at[u] /\ clock >= ends_at[u])
            => sent[u].tier1 >= 1

\* the addresses whose entry in memory is not the entry in the cache file
UnsavedAddresses ==
    {a \in DOMAIN combined_cache : a \notin DOMAIN cache_file \/ cache_file[a] # combined_cache[a]}

\* C16: the cache file is rewritten after the resolution work of every processed item,
\* concluded or not: the in-memory cache differs from the file by the entries of at
\* most one item.
C16_CacheFileLagsByOneItem == Cardinality(UnsavedAddresses) <= 1

\* C17: when the loop processes a non-concluded item with 48 or more whole hours
\* remaining (NotSoon), it writes the table to its file, sends no notification, sleeps
\* a whole number of minutes between 40 and 80 inclusive, and stays on the same item
\* (the item index does not advance).
C17_NotSoonDefers ==
    [][(/\ passes_left' = passes_left - 1
        /\ pc = "item"
        /\ ends_at[items[idx]] - clock >= NotSoonHours)
          => /\ last'.path = "notsoon" /\ last'.item = items[idx]
             /\ excel_file' = ToExcel(df)
             /\ sent' = sent
             /\ \E mins \in 40..80 : clock' = clock + mins * 60
             /\ pc' = "item" /\ items' = items /\ idx' = idx]_vars

\* the loop has slept on an item and is still on it
C17_Witness ==
    /\ last.path = "notsoon" /\ last.state = "NotSoon"
    /\ pc = "item" /\ idx <= Len(items) /\ items[idx] = last.item
    /\ clock >= 40 * 60
    /\ excel_file = ToExcel(df)

(***************************************************************************)
(* Claims about concluded items and failures                               *)
(***************************************************************************)
\* the row of u in the table
RowOf(frame, u) == frame.rows[CHOOSE i \in 1..Len(frame.rows) : frame.rows[i][ColItemUrl] = u]

\* the row of u holds the coordinates the cache has for its address and the route
\* columns of both reference points
IsEnriched(frame, cache, u) ==
    /\ ItemAddress[u] \in DOMAIN cache
    /\ <<RowOf(frame, u)[ColLat], RowOf(frame, u)[ColLng]>> = cache[ItemAddress[u]].geocode
    /\ \A i \in 1..Len(RefNames) : \A k \in 1..3 : RouteCols[RefNames[i]][k] \in frame.cols
    /\ RowOf(frame, u)[ColLat] # None =>
          \A i \in 1..Len(RefNames) :
              RowOf(frame, u)[RouteCols[RefNames[i]][1]] # None

\* C18: on a pass where the detail page contains 'Bidding Has Concluded', the item is
\* still geocoded, route-enriched and upserted (a row with its item_url is in the
\* table afterwards), and no notification is sent for it, whatever its deadline and flags.
C18_ConcludedStoredNotNotified ==
    [][(passes_left' = passes_left - 1 /\ last'.path = "concluded")
          => /\ last'.item = items[idx]
             /\ sent' = sent
             /\ last'.item \in ItemUrlSet(df')
             /\ IsEnriched(df', combined_cache', last'.item)]_vars

\* a concluded item whose tier-1 flag was stored has been upserted with its coordinates
C18_Witness ==
    /\ last.path = "concluded" /\ last.existed
    /\ last.item \in ItemUrlSet(df)
    /\ RowOf(df, last.item)[ColLat] # None
    /\ sent[last.item].tier1 >= 1

\* C19: a failed fetch of the listing page, of an auction page or of an item's detail
\* page does not terminate the monitor loop: run_auction_monitor never leaves its
\* while loop, the failing page or item is skipped and processing continues.
C19_FetchFailureKeepsLoopRunning == pc # "terminated"

\* C20: a notification delivery failure is never fatal: on a pass whose alert is not
\* delivered, no exception reaches the monitor loop, the item is still upserted into
\* the table and the loop goes on to the next item.
C20_DeliveryFailureNotFatal ==
    [][(passes_left' = passes_left - 1 /\ last'.path = "normal"
          /\ last'.notified /\ ~last'.delivered)
          => /\ last'.item = items[idx]
             /\ last'.item \in ItemUrlSet(df')
             /\ last'.item \in item_url_set'
             /\ pc' = "item" /\ items' = items /\ idx' = idx + 1]_vars

\* an item that had no row yet is in the table after a pass whose alert was not delivered
C20_Witness ==
    /\ last.path = "normal" /\ last.notified /\ ~last.delivered /\ ~last.existed
    /\ last.item \in ItemUrlSet(df)
    /\ pc = "item"

(***************************************************************************)
(* Claims about the alert flag and the delivery outcome                    *)
(***************************************************************************)
\* this step is a pass of the non-concluded item u whose alert was not delivered
UndeliveredPassOf(u) ==
    /\ passes_left' = passes_left - 1
    /\ last'.item = u /\ last'.path = "normal"
    /\ last'.notified /\ ~last'.delivered

GeocodeAttempted == call.fn = "none" /\ call'.fn = "geocode"
RouteAttempted == call.fn = "none" /\ call'.fn = "route"

\* the original address string of a call: the address as given, "" for a null address
OriginalKey(address) == IF address = NoneAddress THEN <<>> ELSE address

\* the address after trimming and removing one leading placeholder phrase
StrippedAddress(address) == strip_ambiguous_prefix(Strip(OriginalKey(address)))

\* the address is empty or still mentions a placeholder after the stripping
IsPlaceholder(address) ==
    StrippedAddress(address) = <<>> \/ MentionsPlaceholder(StrippedAddress(address))

\* C22: an address that is empty or still mentions a placeholder after trimming and
\* removing one leading placeholder phrase makes no provider call, returns (null, null)
\* and has the sentinel stored under the original, unstripped address string ("" for a
\* null address); for every other address the cache key is the original string as well,
\* while the providers are queried with the stripped address.  No other key is touched.
C22_KeyIsOriginalAddress ==
    [][GeocodeAttempted =>
          /\ DOMAIN combined_cache' = DOMAIN combined_cache \cup {OriginalKey(call'.key)}
          /\ \A k \in DOMAIN combined_cache :
                k # OriginalKey(call'.key) => combined_cache'[k] = combined_cache[k]
          /\ IsPlaceholder(call'.key)
                => /\ call'.calls = <<>>
                   /\ call'.ret = GeocodeSentinel
                   /\ combined_cache'[OriginalKey(call'.key)].geocode = GeocodeSentinel
          /\ ~IsPlaceholder(call'.key)
                => /\ combined_cache'[OriginalKey(call'.key)].geocode = call'.ret
                   /\ \A i \in 1..Len(call'.calls) :
                         call'.calls[i][2] \in {StrippedAddress(call'.key),
                                                remove_ordinal_suffixes(StrippedAddress(call'.key))}
                   /\ call'.calls # <<>> => call'.calls[1][2] = StrippedAddress(call'.key)]_vars

\* the sentinel of a null address is stored under "", and ' Tba, 9 Elm' has been
\* resolved by a query for '9 Elm' and stored under the padded original string
C22_Witness ==
    /\ <<>> \in DOMAIN combined_cache /\ combined_cache[<<>>].geocode = GeocodeSentinel
    /\ IsGeocodeCall /\ call.key = AddrTbaElm
    /\ call.calls # <<>> /\ call.calls[1][2] = <<"9"," ","E","l","m">>
    /\ AddrTbaElm \in DOMAIN combined_cache
    /\ Strip(AddrTbaElm) \notin DOMAIN combined_cache
    /\ combined_cache[AddrTbaElm].geocode = call.ret /\ call.ret # GeocodeSentinel

\* the requests geocode_address may make for an address, in order, each with the
\* position of its outcome among the three outcomes of the call: the second request
\* exists only for an address whose ordinal suffixes can be removed
StepsOf(address) ==
    IF address = Addr5FirstSt
    THEN << [provider |-> "nominatim", query |-> <<"5"," ","1","s","t"," ","S","t">>, outcome |-> 1],
            [provider |-> "nominatim", query |-> <<"5"," ","1"," ","S","t">>, outcome |-> 2],
            [provider |-> "google", query |-> <<"5"," ","1","s","t"," ","S","t">>, outcome |-> 3] >>
    ELSE << [provider |-> "nominatim", query |-> StrippedAddress(address), outcome |-> 1],
            [provider |-> "google", query |-> StrippedAddress(address), outcome |-> 3] >>

\* the call made the first n requests of the order, and all but the last of them failed
MadeFirstSteps(steps, n) ==
    /\ \A i \in 1..n : call.calls[i] = <<steps[i].provider, steps[i].query>>
    /\ \A i \in 1..(n - 1) : call.answers[steps[i].outcome] \in Failures

\* C23: for an address that is not short-circuited and has no cached coordinates,
\* geocode_address calls the primary provider with the exact address, then the primary
\* provider with the ordinal suffixes removed (only when that changes the address), then
\* the secondary provider; it stops at the first step that succeeds, stores and returns
\* that step's coordinates, calls a step only after every earlier one failed, and stores
\* the sentinel and returns (null, null) only when every step failed.
C23_ProvidersInOrder ==
    (IsGeocodeCall /\ ~IsPlaceholder(call.key) /\ call.before \in {<<>>, GeocodeSentinel})
        => /\ Len(call.calls) \in 1..Len(StepsOf(call.key))
           /\ MadeFirstSteps(StepsOf(call.key), Len(call.calls))
           /\ combined_cache[OriginalKey(call.key)].geocode = call.ret
           /\ IF call.answers[StepsOf(call.key)[Len(call.calls)].outcome] \in Failures
              THEN Len(call.calls) = Len(StepsOf(call.key)) /\ call.ret = GeocodeSentinel
              ELSE call.ret = call.answers[StepsOf(call.key)[Len(call.calls)].outcome]

\* '5 1st St', cached as the sentinel, is asked again: the exact query fails, the query
\* without the ordinal suffix succeeds and the secondary provider is not called
C23_Witness ==
    /\ IsGeocodeCall /\ call.key = Addr5FirstSt /\ call.before = GeocodeSentinel
    /\ call.answers[1] = "timeout" /\ call.answers[2] = PointB /\ call.answers[3] = PointA
    /\ Len(call.calls) = 2 /\ call.calls[2] = <<"nominatim", <<"5"," ","1"," ","S","t">> >>
    /\ call.ret = PointB

\* what a step is left with when its request returns an empty result list
AsEmptyResult(outcome) == IF outcome \in Failures THEN <<>> ELSE outcome

\* what the call returns, leaves in the cache and requests
Returned(ret, cache, calls) == [cache |-> cache, ret |-> ret, calls |-> calls]

\* the values a call can hand back to its caller
GeocodeReturns == {GeocodeSentinel, PointA, PointB}
IsRouteTriple(t) == Len(t) = 3 /\ (t = RouteSentinel \/ (t[1] \in Nat /\ t[2] \in Nat /\ t[3] \in {dirs[i] : i \in 1..Len(dirs)}))

HoldsValue(stored, v) ==
    stored = v \/ ({stored, v} \subseteq {EmptyStr, NaN, None, NoneStr})

\* after is before with the fields of the record merged into the row of its item_url:
\* the fields provided hold the record's values, the other fields of that row, the
\* other rows and the row count are unchanged
MergedInPlace(before, after, record) ==
    /\ Len(after.rows) = Len(before.rows)
    /\ \A i \in 1..Len(before.rows) :
          IF before.rows[i][ColItemUrl] = record[ColItemUrl]
          THEN /\ \A k \in DOMAIN record :
                     k \in after.cols /\ HoldsValue(after.rows[i][k], record[k])
               /\ \A k \in before.cols \ DOMAIN record :
                     after.rows[i][k] = before.rows[i][k]
          ELSE \A k \in before.cols : after.rows[i][k] = before.rows[i][k]

\* this step is the normal pass of items[idx] for these inputs / the concluded pass
IsNormalPassWith(e, rs, delivered) ==
    /\ ~IsNotSoon(rs)
    /\ NormalStep(items[idx], e, rs, delivered)
IsConcludedPassWith(e) == ConcludedStep(items[idx], e)

\* C25: when the upsert finds the record's item_url in the table, afterwards every
\* field provided by the record holds the record's value in that row, every field of
\* that row not provided by the record is unchanged, every other row is unchanged and
\* the row count is unchanged, on the normal and on the concluded path.
C25_UpsertMergesProvidedFields ==
    [][(pc = "item" /\ idx <= Len(items) /\ passes_left' = passes_left - 1
          /\ items[idx] \in item_url_set)
        => \A details \in DetailPages, geo \in PassGeocodeAnswers, osrm \in PassOsrmAnswers :
             /\ (details.concluded
                   /\ IsConcludedPassWith(Enrich(items[idx], details, combined_cache, geo, osrm)))
                  => MergedInPlace(df, df',
                        ConcludedRow(Enrich(items[idx], details, combined_cache, geo, osrm).row))
             /\ \A now \in ClockSamples, delivered \in BOOLEAN :
                  (~details.concluded
                     /\ IsNormalPassWith(Enrich(items[idx], details, combined_cache, geo, osrm),
                                         remaining_str(details.bidding_ends_at, now), delivered))
                    => MergedInPlace(df, df',
                          FlaggedRow(Enrich(items[idx], details, combined_cache, geo, osrm).row,
                                     remaining_str(details.bidding_ends_at, now)))]_vars

(***************************************************************************)
(* Claims about the pacing of the requests (SpecPacing)                    *)
(***************************************************************************)
\* this step issues the listing fetch that starts a pass over the sources
ListingFetched == pc = "listing" /\ pc' = "auction"

\* this step issues the detail-page fetch of an item
DetailFetched == pc = "item" /\ passes_left' = passes_left - 1

\* C26: after each full pass over its sources the loop writes the table to its file
\* and sleeps before it starts the next pass: the listing fetch of pass n+1 is never
\* issued without a sleep after (the detail fetch of) the last item of pass n, and the
\* table file holds the table of the pass.
C26_SleepBetweenPasses ==
    [][(ListingFetched /\ fetched_at # None)
          => (clock > fetched_at /\ excel_file = ToExcel(df))]_vars

\* C27: between any two consecutive item detail-page fetches of run_auction_monitor
\* there is a delay of at least 5 seconds (the 5-10 s inter-item delay or the longer
\* not-soon sleep), whatever the outcome for the first item.
C27_FiveSecondsBetweenItems ==
    [][(DetailFetched /\ fetched_at # None) => clock >= fetched_at + 5]_vars

(***************************************************************************)
(* Claims about the location fields                                        *)
(***************************************************************************)
\* a 'geocode' entry: two coordinates or [null, null]
PairOrSentinel(g) == g = GeocodeSentinel \/ (Len(g) = 2 /\ g[1] # None /\ g[2] # None)

\* a 'route' entry: three values or [null, null, null]
TripleOrSentinel(t) ==
    t = RouteSentinel \/ (Len(t) = 3 /\ t[1] # None /\ t[2] # None /\ t[3] # NoneStr)

WellFormedCache(cache) ==
    \A a \in DOMAIN cache :
        /\ cache[a].geocode # <<>> => PairOrSentinel(cache[a].geocode)
        /\ \A city \in DOMAIN cache[a].route : TripleOrSentinel(cache[a].route[city])

\* C28: every 'geocode' entry written into the cache is a pair of two non-null
\* coordinates or [null, null], every 'route' entry is a triple of three non-null values
\* or [null, null, null], and the (auction_lat, auction_lng) of every upserted row are
\* both null or both non-null.
C28_LocationBothOrNeither ==
    /\ WellFormedCache(combined_cache)
    /\ WellFormedCache(cache_file)
    /\ \A i \in 1..Len(df.rows) : (df.rows[i][ColLat] = None) <=> (df.rows[i][ColLng] = None)

\* the cache holds a sentinel pair, a resolved pair and a sentinel route, and the
\* table holds a row without coordinates and a row with both
C28_Witness ==
    /\ \E a \in DOMAIN combined_cache : combined_cache[a].geocode = GeocodeSentinel
    /\ \E a \in DOMAIN combined_cache :
          /\ combined_cache[a].geocode \notin {<<>>, GeocodeSentinel}
          /\ \E city \in DOMAIN combined_cache[a].route : combined_cache[a].route[city] = RouteSentinel
    /\ \E i, j \in 1..Len(df.rows) : df.rows[i][ColLat] = None /\ df.rows[j][ColLat] # None

\* this step is a pass that upserts items[idx]
UpsertingPass ==
    /\ pc = "item" /\ passes_left' = passes_left - 1
    /\ last'.path \in {"normal", "concluded"}

\* the 'route' entries the cache holds for an address
RoutesOf(cache, address) == IF address \in DOMAIN cache THEN cache[address].route ELSE NoRoutes

\* the three route fields of a reference point in a stored row: all null / none null
RouteFieldsNull(row, ref_name) ==
    \A k \in 1..3 : IsMissing(RouteCols[ref_name][k], row[RouteCols[ref_name][k]])
RouteFieldsSet(row, ref_name) ==
    \A k \in 1..3 : ~IsMissing(RouteCols[ref_name][k], row[RouteCols[ref_name][k]])

\* the enrichment that this step performed for these provider answers made no routing request
StepMadeNoRouteCall(geo, osrm) ==
    /\ ConcludedStep(items[idx],
                     Enrich(items[idx], ConcludedDetailOf(items[idx]), combined_cache, geo, osrm))
         => \A i \in 1..Len(Enrich(items[idx], ConcludedDetailOf(items[idx]), combined_cache, geo, osrm).calls) :
               Enrich(items[idx], ConcludedDetailOf(items[idx]), combined_cache, geo, osrm).calls[i][1] # "osrm"
    /\ (\E delivered \in BOOLEAN :
           NormalStep(items[idx], Enrich(items[idx], DetailOf(items[idx]), combined_cache, geo, osrm),
                      remaining_str(DetailOf(items[idx]).bidding_ends_at, clock), delivered))
         => \A i \in 1..Len(Enrich(items[idx], DetailOf(items[idx]), combined_cache, geo, osrm).calls) :
               Enrich(items[idx], DetailOf(items[idx]), combined_cache, geo, osrm).calls[i][1] # "osrm"

\* C29: every row upserted by run_auction_monitor carries, for each configured
\* reference point (calgary, edmonton), the fields <ref>_drive_minutes, <ref>_drive_km
\* and <ref>_direction; when the item's geocode is null the routing provider is not
\* called, no route cache entry is written, and all three fields are null for every
\* reference point.
C29_RouteTriplePerReference ==
    [][UpsertingPass =>
          /\ items[idx] \in ItemUrlSet(df')
          /\ \A r \in 1..Len(RefNames) :
                /\ \A k \in 1..3 : RouteCols[RefNames[r]][k] \in df'.cols
                /\ RouteFieldsNull(RowOf(df', items[idx]), RefNames[r])
                     \/ RouteFieldsSet(RowOf(df', items[idx]), RefNames[r])
          /\ RowOf(df', items[idx])[ColLat] = None
                => /\ \A r \in 1..Len(RefNames) : RouteFieldsNull(RowOf(df', items[idx]), RefNames[r])
                   /\ RoutesOf(combined_cache', ItemAddress[items[idx]])
                        = RoutesOf(combined_cache, ItemAddress[items[idx]])
                   /\ \A geo \in TimedGeocodeAnswers, osrm \in TimedOsrmAnswers :
                         StepMadeNoRouteCall(geo, osrm)]_vars

\* '5 1st St' already has a row; on this pass every geocoding request failed, and the
\* row is written without coordinates and with null route fields for both points
C29_Witness ==
    /\ last.path \in {"normal", "concluded"} /\ last.existed
    /\ ItemAddress[last.item] = Addr5FirstSt
    /\ last.item \in ItemUrlSet(df)
    /\ RowOf(df, last.item)[ColLat] = None
    /\ \A r \in 1..Len(RefNames) : RouteFieldsNull(RowOf(df, last.item), RefNames[r])

(***************************************************************************)
(* Claims about the route cache key (SpecCache)                            *)
(***************************************************************************)
\* C30: calculate_driving_time_osrm reads and writes the same route cache row for cache
\* keys that differ only in the letter case or the surrounding spaces of the
\* reference-point name: every row is stored under the capitalised name, and a result
\* stored for an address is returned, without a provider call, for every spelling.
C30_ReferenceNameCanonical ==
    /\ \A a \in DOMAIN combined_cache : DOMAIN combined_cache[a].route \subseteq {KeyCalgary}
    /\ (IsRouteCall /\ call.before \notin {<<>>, RouteSentinel})
          => (call.ret = call.before /\ call.calls = <<>>)
    /\ (IsRouteCall /\ call.calls # <<>>)
          => CachedRoute(combined_cache, call.key, KeyCalgary) = call.ret

\* a call with the key 'addr| CALGARY' is answered from the row stored under 'Calgary'
C30_Witness ==
    /\ IsRouteCall /\ call.city = <<" ","C","A","L","G","A","R","Y">>
    /\ call.before \notin {<<>>, RouteSentinel}
    /\ call.ret = call.before /\ call.calls = <<>>
    /\ DOMAIN combined_cache[call.key].route = {KeyCalgary}

(***************************************************************************)
(* Claims about the order of the saved property table                      *)
(***************************************************************************)
\* the rows of a table that do not carry the tag, in table order
RowsNotTagged(frame, tag) ==
    LET Other(r) == TagOf(frame, r) # tag
    IN  SelectSeq(frame.rows, Other)

\* the rows of a table that carry the tag, in table order
RowsOfCategory(frame, tag) ==
    LET Same(r) == TagOf(frame, r) = tag
    IN  SelectSeq(frame.rows, Same)

\* a row read back from the file is the stored row: the same value in every column
\* the table had, and the same category
SameStoredRow(saved, stored, existing) ==
    /\ \A c \in existing.cols \ {ColCategory} : saved[c] = stored[c]
    /\ saved[ColCategory] = TagOf(existing, stored)

\* the file holds the new rows, then the stored rows of the category, then the
\* stored rows of the other categories
SavedInOrder(file, new_properties, existing, property_category) ==
    /\ Len(file.rows) = Len(new_properties)
                          + Len(RowsOfCategory(existing, property_category))
                          + Len(RowsNotTagged(existing, property_category))
    /\ \A i \in 1..Len(new_properties) :
          /\ \A c \in DOMAIN new_properties[i] : file.rows[i][c] = new_properties[i][c]
          /\ file.rows[i][ColCategory] = property_category
    /\ \A i \in 1..Len(RowsOfCategory(existing, property_category)) :
          SameStoredRow(ReadProperties(file).rows[Len(new_properties) + i],
                        RowsOfCategory(existing, property_category)[i], existing)
    /\ \A i \in 1..Len(RowsNotTagged(existing, property_category)) :
          SameStoredRow(ReadProperties(file).rows[Len(new_properties)
                            + Len(RowsOfCategory(existing, property_category)) + i],
                        RowsNotTagged(existing, property_category)[i], existing)

\* s is t with some elements left out
RECURSIVE IsSubsequence(_, _)
IsSubsequence(s, t) ==
    IF s = <<>> THEN TRUE
    ELSE IF t = <<>> THEN FALSE
    ELSE IF Head(s) = Head(t) THEN IsSubsequence(Tail(s), Tail(t))
    ELSE IsSubsequence(s, Tail(t))

\* this step checks the category at url_idx on a page with these listings
IsCheckOfPage(property_sections, price) ==
    /\ url_idx <= Len(url_categories)
    /\ LoadStep(url_categories[url_idx],
                load_existing_properties(EXCEL_FILE, url_categories[url_idx]),
                property_sections, price)

\* C31: after save_properties_to_excel for category X with a non-empty list of new
\* rows the saved table is the new rows in the order of the page, then the rows
\* stored for category X in their previous order, then the rows of the other
\* categories in their previous order; with an empty list the file is unchanged.
C31_SavedTableOrder ==
    [][/\ (checked'.path = "checked" /\ checked'.new_properties # <<>>) =>
             /\ checked'.saved
             /\ SavedInOrder(EXCEL_FILE', checked'.new_properties, checked'.existing_df,
                             checked'.category)
       /\ (checked'.path = "checked" /\ checked'.new_properties = <<>>) =>
             EXCEL_FILE' = EXCEL_FILE
       /\ \A property_sections \in PropertySections, price \in Prices :
             IsCheckOfPage(property_sections, price) =>
                 IsSubsequence([i \in 1..Len(checked'.new_properties) |->
                                   checked'.new_properties[i][ColMls]],
                               property_sections)]_vars

\* a save of new rows onto a table that holds rows of the same category and rows of
\* another category
C31_Witness ==
    /\ checked.path = "checked" /\ checked.saved
    /\ checked.new_properties # <<>>
    /\ RowsOfCategory(checked.existing_df, checked.category) # <<>>
    /\ RowsNotTagged(checked.existing_df, checked.category) # <<>>
    /\ Len(EXCEL_FILE.rows) = Len(checked.existing_df.rows) + Len(checked.new_properties)

(***************************************************************************)
(* Claims about the types of the stored columns                            *)
(***************************************************************************)
\* C32: a column of the table whose stored type is numeric holds no empty string
\* after an upsert: an empty-string value destined for it is stored as the
\* missing-value marker, on the insert, the update and the concluded path.
\* (the coordinate and route columns are only ever given numbers or None, so the
\* columns that can be handed an empty string are the other ones)
C32_NoEmptyStringInNumericColumn ==
    [][\A c \in (df.numeric \ NumberCols) \cap df'.cols :
          \A i \in 1..Len(df'.rows) : df'.rows[i][c] # EmptyStr]_vars

(***************************************************************************)
(* Claims about the order in which the loop works through a cycle          *)
(***************************************************************************)
\* the loop is on an item that has 48 whole hours or more left
OnNotSoonItem ==
    /\ pc = "item" /\ idx <= Len(items)
    /\ ends_at[items[idx]] - clock >= NotSoonHours

\* C33: while the item the loop is on is classified NotSoon, every pass is a pass of
\* that item: no later item of the auction and no later auction has its detail page
\* fetched, is upserted or is notified, and the item itself is not upserted; the loop
\* moves on only when the item has fewer than 48 whole hours remaining.
C33_NotSoonItemBlocksTheQueue ==
    [][(OnNotSoonItem /\ last'.path # "concluded") =>
          /\ last'.item = items[idx] /\ last'.path = "notsoon"
          /\ pc' = "item" /\ items' = items /\ idx' = idx /\ auction_idx' = auction_idx
          /\ df' = df /\ item_url_set' = item_url_set
          /\ sent' = sent]_vars

\* the loop slept on the first item of an auction and afterwards, with less than 48
\* hours left for it, processed it and the item behind it
C33_Witness ==
    /\ pc = "item" /\ Len(items) = 2 /\ idx = 3
    /\ clock >= 40 * 60
    /\ ends_at[items[1]] >= NotSoonHours
    /\ ends_at[items[1]] - clock < NotSoonHours
    /\ last.item = items[2] /\ last.path = "normal"
    /\ items[1] \in item_url_set /\ items[2] \in item_url_set

\* the flag of u is true after this step and was not true before it
FlagNewlySet(u, c) == FlagIsTrue(df', u, c) /\ ~FlagIsTrue(df, u, c)

\* C34: a single pass sends at most one notification for its item (and none for any
\* other item) and sets at most one of the two tier flags: the tier-1 and the tier-2
\* alert never fire in the same pass, also when the item is first seen with less than
\* one hour remaining.
C34_OneAlertPerPass ==
    [][/\ \A u \in Items :
             /\ Dispatched(u) \in {0, 1}
             /\ Dispatched(u) = 1 => (last'.item = u /\ last'.notified)
             /\ ~(sent'[u].tier1 > sent[u].tier1 /\ sent'[u].tier2 > sent[u].tier2)
             /\ ~(FlagNewlySet(u, Col12) /\ FlagNewlySet(u, Col1))
       /\ \A u, v \in Items : (Dispatched(u) = 1 /\ Dispatched(v) = 1) => u = v]_vars

\* an item first seen with less than one hour remaining: one tier-1 notification, the
\* tier-1 flag stored, no tier-2 notification and no tier-2 flag
C34_Witness ==
    /\ last.path = "normal" /\ last.state = "Imminent" /\ ~last.existed
    /\ last.notified /\ last.tier = 1
    /\ sent[last.item].tier1 = 1 /\ sent[last.item].tier2 = 0
    /\ FlagIsTrue(df, last.item, Col12)
    /\ ~FlagIsTrue(df, last.item, Col1)

(***************************************************************************)
(* Claims about the sectors of calculate_direction                         *)
(***************************************************************************)
\* the half-open 45-degree sector centred on the i-th compass point contains the
\* bearing: [22.5 + 45(i - 2), 22.5 + 45(i - 1)), North wrapping around 360
InHalfOpenSector(i, bearing) ==
    IF i = 1 THEN ~BelowEdge(bearing, 7) \/ BelowEdge(bearing, 0)
    ELSE ~BelowEdge(bearing, i - 2) /\ BelowEdge(bearing, i - 1)

\* C35: calculate_direction returns one of eight labels, each covering the half-open
\* 45-degree sector centred on its compass point (North = [337.5, 360) and [0, 22.5),
\* Northeast = [22.5, 67.5), ..., Northwest = [292.5, 337.5)), and the index
\* arithmetic of auc2.py and the if-chain of auction.py assign the same sector to
\* every bearing in [0, 360).
C35_SameHalfOpenSectors ==
    pointed.phase = "done" =>
        \E i \in 1..8 : /\ pointed.short = dirs[i]
                        /\ pointed.long = LongNames[i]
                        /\ InHalfOpenSector(i, pointed.bearing)

(***************************************************************************)
(* Claims about the schedule of run_continuous_monitor                     *)
(***************************************************************************)
\* the time of day lies within [06:00, 23:59]
WithinOperatingHours(t) == t % Day >= 6 * Hour /\ t % Day <= 23 * Hour + 59 * Minute

\* t is 06:00 of the day after the day of now
SixNextDay(now, t) == t = (now \div Day + 1) * Day + 6 * Hour

\* t is the first 06:00 after now
NextSix(now, t) == t % Day = 6 * Hour /\ t > now /\ t - now <= Day

Configured(c) ==
    /\ c.bot # NoneStr
    /\ (IF c.channel_id # NoneStr THEN c.channel_id ELSE c.MY_CHANNEL_ID) \notin {NoneStr, EmptyStr}

\* the send raised a RuntimeError whose text reports a closed or shut-down event loop
ClosedLoopError(outcome) ==
    /\ outcome.type = "RuntimeError"
    /\ outcome.text \in {"Event loop is closed", "cannot schedule new futures after shutdown"}

\* C37: send_telegram_message returns normally for every outcome (bot not initialised,
\* channel id missing, send raising any exception); it attempts no send when the bot or
\* the channel id is not configured; it makes at most two send attempts per call, the
\* second only after a RuntimeError whose text reports a closed or shut-down event loop.
C37_SendNeverRaises ==
    tg_call.phase = "done" =>
        /\ ~tg_call.raised
        /\ ~Configured(tg_call) => tg_call.attempts = <<>>
        /\ Len(tg_call.attempts) <= 2
        /\ Len(tg_call.attempts) = 2 => ClosedLoopError(tg_call.attempts[1].outcome)

\* both sends of a call failed, the second after the first reported a closed event
\* loop, and the call returned
C37_Witness ==
    /\ tg_call.phase = "done" /\ ~tg_call.raised
    /\ Len(tg_call.attempts) = 2
    /\ ClosedLoopError(tg_call.attempts[1].outcome)
    /\ tg_call.attempts[2].outcome.type = "Exception"
    /\ tg_call.attempts[2].via = "asyncio.run"

(***************************************************************************)
(* Claims about the auctions and items of a cycle                          *)
(***************************************************************************)
\* the number of auctions a cycle processes: min(3, n)
Processed(infos) == IF Len(infos) < 3 THEN Len(infos) ELSE 3

\* the items listed by the pages of the auctions at the given positions
ItemsOfAuctions(infos, positions) ==
    {u \in Items : \E k \in positions : \E page \in AuctionPages[infos[k]] :
                      \E i \in 1..Len(page) : page[i] = u}

\* the items that only a fourth or later auction of the listing lists
BeyondThird(infos) ==
    ItemsOfAuctions(infos, 4..Len(infos)) \ ItemsOfAuctions(infos, 1..Processed(infos))

\* this step fetches a detail page (every pass does, and nothing else does)
IsPass == last'.path \in {"normal", "notsoon", "concluded"} /\ passes_left' = passes_left - 1

\* the notifications of u and the cells of its row are not touched by this step
Untouched(u) ==
    /\ sent'[u] = sent[u]
    /\ (u \in item_url_set') = (u \in item_url_set)
    /\ (u \in item_url_set => \A c \in df.cols : RowOf(df', u)[c] = RowOf(df, u)[c])

\* C38: in each cycle the loop processes the first min(3, n) of the n listed auctions
\* in listing order, and the items of an auction in page order; items of a fourth or
\* later auction are never fetched, upserted or notified in that cycle; on an empty
\* listing the loop sleeps 600 seconds and fetches the listing again without
\* touching the cache or the table.
C38_FirstThreeAuctionsInOrder ==
    [][/\ IsPass =>
             /\ pc = "item" /\ auction_idx <= Processed(auction_infos)
             /\ items \in AuctionPages[auction_infos[auction_idx]]
             /\ idx <= Len(items) /\ last'.item = items[idx]
             /\ idx' \in {idx, idx + 1} /\ items' = items /\ auction_idx' = auction_idx
             /\ \A u \in Items \ {items[idx]} : Untouched(u)
       /\ ~IsPass => \A u \in Items : sent'[u] = sent[u]
       /\ (pc = "listing" /\ pc' = "auction") => auction_idx' = 1
       /\ (pc = "auction" /\ pc' = "item") =>
             /\ auction_idx' = auction_idx /\ auction_idx <= Processed(auction_infos)
             /\ idx' = 1 /\ items' \in AuctionPages[auction_infos[auction_idx]]
       /\ (pc = "item" /\ pc' = "auction") =>
             /\ idx = Len(items) + 1 /\ auction_idx' = auction_idx + 1
       /\ (pc = "auction" /\ pc' = "listing") => auction_idx = Processed(auction_infos) + 1
       /\ pc # "listing" =>
             /\ auction_infos' = auction_infos
             /\ \A u \in BeyondThird(auction_infos) : Untouched(u) /\ (IsPass => last'.item # u)
       /\ (last'.path = "no_auctions" /\ passes_left' = passes_left - 1) =>
             /\ pc = "listing" /\ pc' = "listing"
             /\ clock' = clock + 600
             /\ combined_cache' = combined_cache /\ cache_file' = cache_file
             /\ df' = df /\ item_url_set' = item_url_set /\ excel_file' = excel_file]_vars

\* a cycle over a listing of four auctions has ended: the item of the first auction
\* is in the table, the item of the fourth is not
C38_Witness ==
    /\ pc = "listing" /\ Len(auction_infos) = 4 /\ auction_idx = 4
    /\ BeyondThird(auction_infos) = {"u2"}
    /\ "u1" \in item_url_set /\ "u2" \notin item_url_set
    /\ sent["u2"].tier1 + sent["u2"].tier2 = 0
    /\ last.item = "u1"

====
